---- MODULE Spec2Model ----
(***************************************************************************)
(* StockTrack: consumption decrement and low-stock alert engine.           *)
(*                                                                         *)
(* Remote store  : src/src/lib/firebase/firestore.ts (revision at lines    *)
(*                 293..1227: decrementQuantities, checkLowStock,          *)
(*                 AddStock, acknowledgeNotification, background task)     *)
(* Local store   : src/src/lib/local-storage.ts (revision at lines 1..322) *)
(* Scheduler     : src/expo-env.d.ts lines 25..191 (usePeriodicSync with   *)
(*                 the isRunning guard)                                    *)
(*                                                                         *)
(* Time is counted in whole seconds since the epoch (the code works in     *)
(* milliseconds; every instant of the model is a whole second).            *)
(***************************************************************************)
EXTENDS Integers, Sequences, FiniteSets, TLC

\* ------------------------------------------------------------------ values

\* JavaScript `undefined` / Firestore absent field, for optional numbers.
Undefined == -1
\* JavaScript NaN (the result of number + undefined).
NaN == -2

Items == {"p1", "p2"}
\* Order in which a query snapshot lists the documents.
DocOrder == <<"p1", "p2">>

\* Instant of mount (setupIntervals runs at Start).
Start == 7200
\* Granularity of the model's clock, in seconds.
TickStep == 1800
\* Number of clock ticks after Start.
MaxTicks == 3
MaxNow == Start + MaxTicks * TickStep
\* The platform runs the background task at most this many times.
MaxBgRuns == 2

Units == {"hour", "day", "week", "month"}

NoRate == [amount |-> Undefined, period |-> Undefined, unit |-> "none"]

Max(a, b) == IF a >= b THEN a ELSE b
Min(a, b) == IF a <= b THEN a ELSE b

IsNumber(x) == x # Undefined /\ x # NaN

\* a <= b in JavaScript: false as soon as one side is undefined or NaN.
JsLeq(a, b) == IsNumber(a) /\ IsNumber(b) /\ a <= b

\* a + b in JavaScript on numbers-or-undefined.
JsAdd(a, b) == IF IsNumber(a) /\ IsNumber(b) THEN a + b ELSE NaN

\* x || 0
OrZero(x) == IF IsNumber(x) THEN x ELSE 0

SeqRange(s) == {s[k] : k \in 1..Len(s)}

\* ------------------------------------------------------------------ state

\* The callers of decrementQuantities(): runSyncTasks and the background task.
Procs == {"sync", "bg"}
\* The callers of checkLowStock(): the two above and updateProductQuantity().
Callers == Procs \cup {"ui"}

VARIABLES
    now,            \* the clock (Date.now(), serverTimestamp()), in seconds
    products,       \* Firestore collection 'products'
    notifications,  \* Firestore collection 'notifications', keyed by product id
    localProducts,  \* AsyncStorage list under PRODUCTS_STORAGE_KEY
    pc,             \* position of each running decrementQuantities() call
    passNow,        \* `now` captured by each decrementQuantities() call
    docs,           \* querySnapshot.docs of each call (ids, in order)
    batch,          \* operations staged in the write batch of each call
    updatesMade,    \* updatesMade of each call
    idx,            \* position of the post-commit loop of each call
    ck,             \* locals of the running checkLowStock / AddStock call
    upq,            \* locals of the running updateProductQuantity() call
    emitted,        \* what the last step signalled to the user-facing layer:
                    \* alerts, and invalidations of query caches
    lastCheck,      \* the checkLowStock call that returned in the last step
    cleared,        \* products whose acknowledged alert a check has deleted
    appState,       \* appState.current
    isRunning,      \* isRunning.current, the single-flight flag
    spc,            \* position of the running runSyncTasks() call
    cycleNow,       \* `now` captured by the running runSyncTasks() call
    lastLocalRun,   \* lastLocalRun.current
    lastFirebaseRun,\* lastFirebaseRun.current
    lpc,            \* position of the running decrementLocalQuantities() call
    lnow,           \* `now` captured by decrementLocalQuantities()
    lupdated,       \* updatedProducts of decrementLocalQuantities()
    removing,       \* the list the running removeProduct(), storeProduct() or
                    \* updateLocalProductQuantity() call of the local store
                    \* has read (and modified, for the last two)
    prevPassNow,    \* `now` of the last completed pass of each backend
    bgRuns,         \* number of times the platform has run the background task
    faults          \* what failed writes have left unpersisted so far, whether
                    \* the stored local list holds a null entry, and whether
                    \* runSyncTasks has returned at its isRunning guard during
                    \* the running cycle; whether the application runs
                    \* without a Firebase configuration; and by how much the
                    \* writes of the passes of each backend have lowered the
                    \* stored quantity of each product so far; and the
                    \* products that manual writes have stored in the local
                    \* store since the running local pass read it;
                    \* and the instant of the trigger that started the last
                    \* pass of each backend

storeVars == <<products, notifications, localProducts>>
passVars == <<pc, passNow, docs, batch, updatesMade, idx, ck, upq>>
schedVars == <<appState, isRunning, spc, cycleNow, lastLocalRun, lastFirebaseRun,
               bgRuns>>
localVars == <<lpc, lnow, lupdated, removing>>
vars == <<now, products, notifications, localProducts, pc, passNow, docs, batch,
          updatesMade, idx, ck, upq, emitted, lastCheck, cleared, appState,
          isRunning, spc, cycleNow, lastLocalRun, lastFirebaseRun, lpc, lnow,
          lupdated, removing, prevPassNow, bgRuns, faults>>

\* A document that does not exist in the collection 'products'.
NoProduct ==
    [exists |-> FALSE, quantity |-> 0, rate |-> NoRate, minStockLevel |-> Undefined,
     reorderQuantity |-> Undefined, lastDecremented |-> Undefined,
     lastUpdated |-> Undefined]

NoNotification ==
    [exists |-> FALSE, acknowledged |-> FALSE, quantity |-> 0, timestamp |-> 0]

CkNone ==
    [provided |-> FALSE, found |-> FALSE, quantity |-> 0,
     minStockLevel |-> Undefined, reorderQuantity |-> Undefined,
     nExists |-> FALSE, nAck |-> FALSE]

\* No checkLowStock call returned in the last step.
NoCheck ==
    [id |-> "none", quantity |-> 0, minStockLevel |-> Undefined, nExists |-> FALSE,
     nAck |-> FALSE, before |-> NoNotification]

\* A step that emits no alert and returns from no checkLowStock call.
Silent ==
    /\ emitted' = {}
    /\ lastCheck' = NoCheck
    /\ cleared' = cleared

\* A step that, besides, meets no fault and drops no trigger.
Quiet ==
    /\ Silent
    /\ faults' = faults

\* No write has failed, and the list under the local products key holds
\* product objects only.
NoFaults ==
    [lost |-> {}, localLost |-> {}, alertLost |-> {}, recovered |-> {}, vanished |-> {},
     nullEntry |-> FALSE, dropped |-> FALSE, noFirebase |-> FALSE,
     taken |-> [b \in {"remote", "local"} |-> [id \in Items |-> 0]],
     manual |-> {},
     started |-> [b \in {"remote", "local"} |-> Undefined]]

\* The JSON array under the local products key holds a null entry besides the
\* products: getAllProducts() validates Array.isArray(products) only.
NullEntryStored == [NoFaults EXCEPT !.nullEntry = TRUE]

\* Constants.expoConfig.extra holds no Firebase configuration: FirebaseProvider
\* initialises no app and sets isFirebaseAvailable to false.
NotConfigured == [NoFaults EXCEPT !.noFirebase = TRUE]

\* getDb() without the test of getApps().length.
GetDb_Unchecked == TRUE

\* getDb() returns a Firestore instance: an initialised app exists.
GetDb == ~faults.noFirebase

\* By how much a write that replaces the stored quantity before by the
\* quantity after lowers it.
Lowered(before, after) ==
    IF IsNumber(before) /\ IsNumber(after) /\ after < before THEN before - after ELSE 0

\* The stored values of a product whose staged update was not persisted.
LostRecord(id, p) ==
    [id |-> id, quantity |-> p.quantity, lastDecremented |-> p.lastDecremented]

UpqNone == [quantityToAdd |-> 0, newQuantity |-> 0, minStockLevel |-> Undefined]

\* ------------------------------------------------------------------ PeriodCalculator

\* Length of one unit in seconds: hour = 1 h, day = 24 h, week = 7 * 24 h,
\* month = 30.4375 * 24 h = 730.5 h.
UnitSeconds(unit) ==
    CASE unit = "hour" -> 3600
      [] unit = "day" -> 24 * 3600
      [] unit = "week" -> 7 * 24 * 3600
      [] unit = "month" -> 2629800
      [] OTHER -> 0

\* const period = rate.period && rate.period > 0 ? rate.period : 1
EffectivePeriod(rate) == IF IsNumber(rate.period) /\ rate.period > 0 THEN rate.period ELSE 1

\* periodsPassed = Math.floor(diffHours / (unitHours * period)); 0 for an
\* unrecognised unit (no branch of the if-chain assigns it).
PeriodsPassed(rate, diffTime) ==
    IF rate.unit \in Units
    THEN diffTime \div (UnitSeconds(rate.unit) * EffectivePeriod(rate))
    ELSE 0

\* lastDecremented as a Date: the epoch when missing or null.
LastDecrementedDate(p) == IF IsNumber(p.lastDecremented) THEN p.lastDecremented ELSE 0

\* ------------------------------------------------------------------ decrementQuantities

\* where('consumptionRate', '!=', null), where('quantity', '>=', 0)
InQuery(p) == p.exists /\ p.rate # NoRate /\ IsNumber(p.quantity) /\ p.quantity >= 0

\* if (!rate || !rate.amount || rate.amount <= 0 || rate.period <= 0) return;
RemoteSkipsRate(rate) ==
    \/ rate = NoRate
    \/ ~IsNumber(rate.amount)
    \/ rate.amount <= 0
    \/ (IsNumber(rate.period) /\ rate.period <= 0)

\* A staged lastDecremented that keeps the remainder of the window: the end of
\* the last whole period instead of `now`.
StagedLastDecremented_EndOfLastPeriod(p, t) ==
    LET len == UnitSeconds(p.rate.unit) * EffectivePeriod(p.rate)
    IN  LastDecrementedDate(p) + PeriodsPassed(p.rate, t - LastDecrementedDate(p)) * len

\* lastDecremented: nowTimestamp in the staged update.
StagedLastDecremented(p, t) == t

\* The operation the forEach body stages for one document:
\* kind "qty" (quantity, lastDecremented, lastUpdated), "ts" (lastDecremented
\* only) or "none".
RemoteStaged(id, p, t) ==
    LET diffTime == t - LastDecrementedDate(p)
        k == IF diffTime <= 0 THEN 0 ELSE PeriodsPassed(p.rate, diffTime)
        newQuantity == Max(0, p.quantity - k * p.rate.amount)
        none == [id |-> id, kind |-> "none", quantity |-> 0, lastDecremented |-> 0]
    IN  IF RemoteSkipsRate(p.rate) \/ diffTime <= 0 \/ k <= 0 THEN none
        ELSE IF newQuantity < p.quantity
             THEN [id |-> id, kind |-> "qty", quantity |-> newQuantity,
                   lastDecremented |-> StagedLastDecremented(p, t)]
        ELSE IF p.quantity > 0
             THEN [id |-> id, kind |-> "ts", quantity |-> 0,
                   lastDecremented |-> StagedLastDecremented(p, t)]
        ELSE none

\* The documents of DocOrder that match the query, in order.
RECURSIVE QueryDocs(_, _)
QueryDocs(prods, k) ==
    IF k > Len(DocOrder) THEN <<>>
    ELSE (IF InQuery(prods[DocOrder[k]]) THEN <<DocOrder[k]>> ELSE <<>>)
         \o QueryDocs(prods, k + 1)

\* batch.update applied to one document.
ApplyStaged(p, op, t) ==
    IF op.kind = "qty"
    THEN [p EXCEPT !.quantity = op.quantity, !.lastDecremented = op.lastDecremented,
                   !.lastUpdated = t]
    ELSE [p EXCEPT !.lastDecremented = op.lastDecremented]

StagedFor(b, id) == CHOOSE op \in b : op.id = id

\* decrementQuantities() up to its first await (getDocs): db, batch, now; it
\* returns at once, before `now` is taken, when getDb() returns null.
StartRemotePass(p) ==
    /\ pc' = [pc EXCEPT ![p] = IF GetDb THEN "query" ELSE "end"]
    /\ passNow' = [passNow EXCEPT ![p] = IF GetDb THEN now ELSE Undefined]
    /\ docs' = [docs EXCEPT ![p] = <<>>]
    /\ batch' = [batch EXCEPT ![p] = {}]
    /\ updatesMade' = [updatesMade EXCEPT ![p] = 0]
    /\ idx' = [idx EXCEPT ![p] = 0]
    /\ ck' = [ck EXCEPT ![p] = CkNone]
    /\ upq' = upq

\* decrementQuantities() returns to its caller p: its locals go out of scope.
ReturnFromPass(p) ==
    /\ pc' = [pc EXCEPT ![p] = "idle"]
    /\ passNow' = [passNow EXCEPT ![p] = 0]
    /\ docs' = [docs EXCEPT ![p] = <<>>]
    /\ batch' = [batch EXCEPT ![p] = {}]
    /\ updatesMade' = [updatesMade EXCEPT ![p] = 0]
    /\ idx' = [idx EXCEPT ![p] = 0]
    /\ ck' = [ck EXCEPT ![p] = CkNone]
    /\ upq' = upq

\* Where the post-commit loop goes for position k of call p.
LoopPc(d, k) == IF k <= Len(d) THEN "cls_prod" ELSE "end"

\* getDocs resolves; querySnapshot.forEach stages the updates.
DQ_Query(p) ==
    /\ pc[p] = "query"
    /\ LET d == QueryDocs(products, 1)
           staged == {RemoteStaged(id, products[id], passNow[p]) : id \in SeqRange(d)}
           b == {op \in staged : op.kind # "none"}
           n == Cardinality({op \in b : op.kind = "qty"})
       IN  /\ docs' = [docs EXCEPT ![p] = d]
           /\ batch' = [batch EXCEPT ![p] = b]
           /\ updatesMade' = [updatesMade EXCEPT ![p] = n]
           /\ idx' = [idx EXCEPT ![p] = 1]
           /\ pc' = [pc EXCEPT ![p] = IF n > 0 THEN "commit" ELSE LoopPc(d, 1)]
    /\ Quiet
    /\ UNCHANGED <<now, storeVars, passNow, ck, upq, schedVars, prevPassNow, localVars>>

\* getDocs(q) rejects: the catch of decrementQuantities() logs and the call
\* returns.
DQ_QueryFails(p) ==
    /\ pc[p] = "query"
    /\ pc' = [pc EXCEPT ![p] = "end"]
    /\ Quiet
    /\ UNCHANGED <<now, storeVars, passNow, docs, batch, updatesMade, idx, ck, upq,
                   schedVars, prevPassNow, localVars>>

\* await batch.commit(): all staged operations, atomically. An update of a
\* document that no longer exists fails the whole batch; the catch ends the call.
\* What a rejected batch.commit() leaves in the products collection when the
\* rejected batch wrote the updates of the documents that still exist.
RejectedBatch_WritesExisting(prods, b, t) ==
    [id \in Items |->
        IF prods[id].exists /\ \E op \in b : op.id = id
        THEN ApplyStaged(prods[id], StagedFor(b, id), t)
        ELSE prods[id]]

\* What a rejected batch.commit() leaves in the products collection: a
\* writeBatch is atomic, none of its updates is written.
RejectedBatch(prods, b, t) == prods

DQ_Commit(p) ==
    /\ pc[p] = "commit"
    /\ IF \A op \in batch[p] : products[op.id].exists
       THEN /\ products' = [id \in Items |->
                   IF \E op \in batch[p] : op.id = id
                   THEN ApplyStaged(products[id], StagedFor(batch[p], id), passNow[p])
                   ELSE products[id]]
            /\ pc' = [pc EXCEPT ![p] = LoopPc(docs[p], 1)]
            /\ faults' = [faults EXCEPT
                             !.taken.remote =
                                 [id \in Items |->
                                     @[id] + Lowered(products[id].quantity,
                                                     products'[id].quantity)],
                             !.lost = {r \in @ : ~\E op \in batch[p] : op.id = r.id},
                             !.recovered = @ \cup
                                 {<<"remote", r.id>> : r \in {x \in faults.lost :
                                                         \E op \in batch[p] : op.id = x.id}}]
       ELSE /\ products' = RejectedBatch(products, batch[p], passNow[p])
            /\ pc' = [pc EXCEPT ![p] = "end"]
            /\ faults' = [faults EXCEPT
                             !.lost = {r \in @ : ~\E op \in batch[p] : op.id = r.id}
                                      \cup {LostRecord(op.id, products[op.id]) :
                                               op \in {o \in batch[p] : products[o.id].exists}},
                             !.vanished = @ \cup {op.id : op \in {o \in batch[p] :
                                                               ~products[o.id].exists}}]
    /\ emitted' = {}
    /\ lastCheck' = NoCheck
    /\ cleared' = cleared
    /\ UNCHANGED <<now, notifications, localProducts, passNow, docs, batch,
                   updatesMade, idx, ck, upq, schedVars, prevPassNow, localVars>>

\* ------------------------------------------------------------------ checkLowStock

\* The document the post-commit loop of call p is at.
CurrentDoc(p) == docs[p][idx[p]]

\* quantity <= (minStockLevel || 0)
IsLowForCheck(quantity, minStockLevel) == JsLeq(quantity, OrZero(minStockLevel))

\* CheckAction with the deletion skipped for an acknowledged notification.
CheckAction_KeepsAcknowledged(quantity, minStockLevel, nExists, nAck) ==
    IF IsLowForCheck(quantity, minStockLevel)
    THEN (IF ~nAck THEN "write" ELSE "ackd")
    ELSE (IF nExists /\ ~nAck THEN "delete" ELSE "none")

\* CheckAction without the isAcknowledged test.
CheckAction_IgnoresAcknowledged(quantity, minStockLevel, nExists, nAck) ==
    IF IsLowForCheck(quantity, minStockLevel)
    THEN "write"
    ELSE (IF nExists THEN "delete" ELSE "none")

\* CheckAction that only creates a notification and leaves an existing one
\* as it is.
CheckAction_CreateOnly(quantity, minStockLevel, nExists, nAck) ==
    IF IsLowForCheck(quantity, minStockLevel)
    THEN (IF nAck THEN "ackd" ELSE IF nExists THEN "none" ELSE "write")
    ELSE (IF nExists THEN "delete" ELSE "none")

\* CheckAction that only refreshes a notification that already exists.
CheckAction_UpdateOnly(quantity, minStockLevel, nExists, nAck) ==
    IF IsLowForCheck(quantity, minStockLevel)
    THEN (IF nAck THEN "ackd" ELSE IF nExists THEN "write" ELSE "none")
    ELSE (IF nExists THEN "delete" ELSE "none")

\* What checkLowStock does to the notification once both reads are in:
\* "write" (setDoc, acknowledged: false), "ackd" (low, acknowledged: ignore),
\* "delete" (deleteDoc), "none".
CheckAction(quantity, minStockLevel, nExists, nAck) ==
    IF IsLowForCheck(quantity, minStockLevel)
    THEN (IF ~nAck THEN "write" ELSE "ackd")
    ELSE (IF nExists THEN "delete" ELSE "none")

\* The user-facing alerts of one checkLowStock call: AudioManager.playAlert()
\* and Notifications.scheduleNotificationAsync() in the low branch, the push
\* message (sendImmediateNotification) only under !isAcknowledged.
CheckEmits(quantity, minStockLevel, nAck) ==
    IF IsLowForCheck(quantity, minStockLevel)
    THEN {"sound", "device"} \cup (IF ~nAck THEN {"push"} ELSE {})
    ELSE {}

\* notificationData of setDoc(notificationRef, notificationData, {merge: true}).
NotificationData(quantity, t) ==
    [exists |-> TRUE, acknowledged |-> FALSE, quantity |-> quantity, timestamp |-> t]

\* Where caller p goes when its checkLowStock has returned: the loop of
\* decrementQuantities waits 30 s after a commit and calls AddStock;
\* updateProductQuantity returns.
AfterCheckPc(p) ==
    IF p = "ui" THEN "idle"
    ELSE IF updatesMade[p] > 0 THEN "wait" ELSE "as_prod"

\* checkLowStock(productId, currentQuantity, productName, productMinStockLevel)
\* up to its first await: the fetch branch unless quantity and minStockLevel
\* were passed (products carry a name).
CheckArgs(currentQuantity, productMinStockLevel) ==
    [provided |-> currentQuantity # Undefined /\ productMinStockLevel # Undefined,
     found |-> FALSE,
     quantity |-> currentQuantity, minStockLevel |-> productMinStockLevel,
     reorderQuantity |-> Undefined, nExists |-> FALSE, nAck |-> FALSE]

\* What is recorded of a checkLowStock call when it returns: its locals c
\* and the notification document n as it was before the call's last step.
CheckRecord(id, c, n) ==
    [id |-> id, quantity |-> c.quantity, minStockLevel |-> c.minStockLevel,
     nExists |-> c.nExists, nAck |-> c.nAck, before |-> n]

\* getDoc(productRef); found is productSnap.exists(). Fetch branch (the loop of decrementQuantities passes
\* no minStockLevel): quantity and minStockLevel come from the document; a
\* missing product: deleteDoc(notificationRef) and return. Otherwise the
\* passed values are used and the document only supplies reorderQuantity.
CLS_ReadProduct(p) ==
    /\ pc[p] = "cls_prod"
    /\ LET id == CurrentDoc(p)
           prod == products[id]
       IN  IF ck[p].provided
           THEN /\ ck' = [ck EXCEPT
                       ![p].found = prod.exists,
                       ![p].reorderQuantity =
                           IF prod.exists THEN prod.reorderQuantity ELSE Undefined]
                /\ pc' = [pc EXCEPT ![p] = "cls_notif"]
                /\ notifications' = notifications
           ELSE IF prod.exists
           THEN /\ ck' = [ck EXCEPT ![p] =
                       [provided |-> FALSE, found |-> TRUE,
                        quantity |-> prod.quantity, minStockLevel |-> prod.minStockLevel,
                        reorderQuantity |-> prod.reorderQuantity,
                        nExists |-> FALSE, nAck |-> FALSE]]
                /\ pc' = [pc EXCEPT ![p] = "cls_notif"]
                /\ notifications' = notifications
           ELSE /\ ck' = [ck EXCEPT ![p] = CkNone]
                /\ pc' = [pc EXCEPT ![p] = AfterCheckPc(p)]
                /\ notifications' = [notifications EXCEPT ![id] = NoNotification]
    /\ Quiet
    /\ UNCHANGED <<now, upq, products, localProducts, passNow, docs, batch, updatesMade,
                   idx, schedVars, prevPassNow, localVars>>

\* getDoc(notificationRef); isAcknowledged.
CLS_ReadNotif(p) ==
    /\ pc[p] = "cls_notif"
    /\ LET n == notifications[CurrentDoc(p)]
           c == [ck[p] EXCEPT !.nExists = n.exists,
                              !.nAck = n.exists /\ n.acknowledged]
       IN  IF CheckAction(c.quantity, c.minStockLevel, c.nExists, c.nAck) = "none"
           THEN /\ ck' = [ck EXCEPT ![p] = CkNone]
                /\ pc' = [pc EXCEPT ![p] = AfterCheckPc(p)]
                /\ lastCheck' = CheckRecord(CurrentDoc(p), c, n)
           ELSE /\ ck' = [ck EXCEPT ![p] = c]
                /\ pc' = [pc EXCEPT ![p] = "cls_act"]
                /\ lastCheck' = NoCheck
    /\ emitted' = {}
    /\ cleared' = cleared
    /\ UNCHANGED <<now, upq, storeVars, passNow, docs, batch, updatesMade, idx, schedVars,
                   prevPassNow, localVars, faults>>

\* The alerts and the notification write of the branch taken.
CLS_Act(p) ==
    /\ pc[p] = "cls_act"
    /\ LET id == CurrentDoc(p)
           c == ck[p]
           act == CheckAction(c.quantity, c.minStockLevel, c.nExists, c.nAck)
       IN  /\ emitted' = {<<id, e>> : e \in CheckEmits(c.quantity, c.minStockLevel, c.nAck)}
           /\ notifications' =
                 CASE act = "write" ->
                        [notifications EXCEPT ![id] = NotificationData(c.quantity, now)]
                   [] act = "delete" ->
                        [notifications EXCEPT ![id] = NoNotification]
                   [] OTHER -> notifications
           /\ lastCheck' = CheckRecord(id, c, notifications[id])
           /\ cleared' = IF act = "delete" /\ c.nAck THEN cleared \cup {id} ELSE cleared
    /\ ck' = [ck EXCEPT ![p] = CkNone]
    /\ pc' = [pc EXCEPT ![p] = AfterCheckPc(p)]
    /\ UNCHANGED <<now, upq, products, localProducts, passNow, docs, batch, updatesMade,
                   idx, schedVars, prevPassNow, localVars, faults>>

\* The alert store rejects writes during the first run of the background task.
AlertStoreHealthy == bgRuns # 1

\* setDoc(notificationRef, ...) rejects: the alerts have been emitted, the
\* catch of checkLowStock logs the error and the call returns.
CLS_ActFails(p) ==
    /\ pc[p] = "cls_act"
    /\ ~AlertStoreHealthy
    /\ LET id == CurrentDoc(p)
           c == ck[p]
       IN  /\ CheckAction(c.quantity, c.minStockLevel, c.nExists, c.nAck) = "write"
           /\ emitted' = {<<id, e>> : e \in CheckEmits(c.quantity, c.minStockLevel, c.nAck)}
           /\ lastCheck' = CheckRecord(id, c, notifications[id])
           /\ faults' = [faults EXCEPT !.alertLost = @ \cup {id}]
    /\ cleared' = cleared
    /\ ck' = [ck EXCEPT ![p] = CkNone]
    /\ pc' = [pc EXCEPT ![p] = AfterCheckPc(p)]
    /\ UNCHANGED <<now, upq, storeVars, passNow, docs, batch, updatesMade,
                   idx, schedVars, prevPassNow, localVars>>

\* await new Promise(resolve => setTimeout(resolve, 30000)): the call is
\* suspended; the clock advances by Tick steps meanwhile.
DQ_Wait(p) ==
    /\ pc[p] = "wait"
    /\ pc' = [pc EXCEPT ![p] = "as_prod"]
    /\ Quiet
    /\ UNCHANGED <<now, storeVars, passNow, docs, batch, updatesMade, idx, ck, upq,
                   schedVars, prevPassNow, localVars>>

\* ------------------------------------------------------------------ AddStock

\* quantity <= minStockLevel
IsLowForAddStock(quantity, minStockLevel) == JsLeq(quantity, minStockLevel)

\* const newQte = quantity + reorderQuantity
NewQte(quantity, reorderQuantity) == JsAdd(quantity, reorderQuantity)

\* The loop of call p moves to its next document.
NextDoc(p) ==
    /\ idx' = [idx EXCEPT ![p] = idx[p] + 1]
    /\ pc' = [pc EXCEPT ![p] = LoopPc(docs[p], idx[p] + 1)]
    /\ ck' = [ck EXCEPT ![p] = CkNone]

\* getDoc(productRef): reorderQuantity is never defined before the test, so
\* AddStock always fetches.
AS_ReadProduct(p) ==
    /\ pc[p] = "as_prod"
    /\ LET id == CurrentDoc(p)
           prod == products[id]
       IN  IF prod.exists
           THEN /\ ck' = [ck EXCEPT ![p] =
                       [provided |-> FALSE, found |-> TRUE,
                        quantity |-> prod.quantity, minStockLevel |-> prod.minStockLevel,
                        reorderQuantity |-> prod.reorderQuantity,
                        nExists |-> FALSE, nAck |-> FALSE]]
                /\ pc' = [pc EXCEPT ![p] = "as_notif"]
                /\ idx' = idx
                /\ notifications' = notifications
           ELSE /\ NextDoc(p)
                /\ notifications' = [notifications EXCEPT ![id] = NoNotification]
    /\ Quiet
    /\ UNCHANGED <<now, upq, products, localProducts, passNow, docs, batch, updatesMade,
                   schedVars, prevPassNow, localVars>>

\* getDoc(notificationRef) and the branch AddStock takes.
AS_ReadNotif(p) ==
    /\ pc[p] = "as_notif"
    /\ LET n == notifications[CurrentDoc(p)]
           c == [ck[p] EXCEPT !.nExists = n.exists,
                              !.nAck = n.exists /\ n.acknowledged]
           low == IsLowForAddStock(c.quantity, c.minStockLevel)
       IN  IF low /\ ~c.nAck
           THEN /\ ck' = [ck EXCEPT ![p] = c]
                /\ pc' = [pc EXCEPT ![p] = "as_update"]
                /\ idx' = idx
           ELSE IF ~low /\ c.nExists
           THEN /\ ck' = [ck EXCEPT ![p] = c]
                /\ pc' = [pc EXCEPT ![p] = "as_delete"]
                /\ idx' = idx
           ELSE NextDoc(p)
    /\ Quiet
    /\ UNCHANGED <<now, upq, storeVars, passNow, docs, batch, updatesMade, schedVars,
                   prevPassNow, localVars>>

\* await updateDoc(productRef, {quantity: newQte, lastUpdated: serverTimestamp()});
\* it rejects for a missing document and the catch ends AddStock.
AS_Update(p) ==
    /\ pc[p] = "as_update"
    /\ LET id == CurrentDoc(p)
           c == ck[p]
       IN  IF products[id].exists
           THEN /\ products' = [products EXCEPT
                       ![id].quantity = NewQte(c.quantity, c.reorderQuantity),
                       ![id].lastUpdated = now]
                /\ IF c.nExists
                   THEN /\ pc' = [pc EXCEPT ![p] = "as_delete"]
                        /\ UNCHANGED <<idx, ck>>
                   ELSE NextDoc(p)
           ELSE /\ products' = products
                /\ NextDoc(p)
    /\ Quiet
    /\ UNCHANGED <<now, upq, notifications, localProducts, passNow, docs, batch,
                   updatesMade, schedVars, prevPassNow, localVars>>

\* await deleteDoc(notificationRef)
AS_Delete(p) ==
    /\ pc[p] = "as_delete"
    /\ notifications' = [notifications EXCEPT ![CurrentDoc(p)] = NoNotification]
    /\ NextDoc(p)
    /\ Quiet
    /\ UNCHANGED <<now, upq, products, localProducts, passNow, docs, batch, updatesMade,
                   schedVars, prevPassNow, localVars>>

\* One step of a running decrementQuantities() call.
RemotePassStep(p) ==
    \/ DQ_Query(p)
    \/ DQ_Commit(p)
    \/ CLS_ReadProduct(p)
    \/ CLS_ReadNotif(p)
    \/ CLS_Act(p)
    \/ DQ_Wait(p)
    \/ AS_ReadProduct(p)
    \/ AS_ReadNotif(p)
    \/ AS_Update(p)
    \/ AS_Delete(p)

\* ------------------------------------------------------------------ acknowledgeNotification

\* updateDoc(notificationRef, {acknowledged: true}); 'not-found' resolves.
AcknowledgeNotification(id) ==
    /\ notifications[id].exists
    /\ ~notifications[id].acknowledged
    /\ notifications' = [notifications EXCEPT ![id].acknowledged = TRUE]
    /\ Quiet
    /\ UNCHANGED <<now, products, localProducts, passVars, schedVars, prevPassNow, localVars>>

\* ------------------------------------------------------------------ background task

\* TaskManager.defineTask(BACKGROUND_FETCH_TASK): initializeSound, then
\* decrementQuantities(). The platform runs the task while the app is in the
\* background.
BgTaskStart ==
    /\ appState = "background"
    /\ pc["bg"] = "idle"
    /\ bgRuns < MaxBgRuns
    /\ bgRuns' = bgRuns + 1
    /\ StartRemotePass("bg")
    /\ Quiet
    /\ UNCHANGED <<now, storeVars, appState, isRunning, spc, cycleNow,
                   lastLocalRun, lastFirebaseRun, prevPassNow, localVars>>

\* decrementQuantities() has returned; scheduleStockCheckNotifications, NewData.
BgTaskFinish ==
    /\ pc["bg"] = "end"
    /\ ReturnFromPass("bg")
    /\ prevPassNow' = [prevPassNow EXCEPT !.remote = passNow["bg"]]
    /\ Quiet
    /\ UNCHANGED <<now, storeVars, schedVars, localVars>>

\* ------------------------------------------------------------------ removeProduct (Firestore)

\* removeProduct(productId): await deleteDoc(productRef).
RP_Delete(id) ==
    /\ pc["ui"] = "idle"
    /\ products[id].exists
    /\ products' = [products EXCEPT ![id] = NoProduct]
    /\ pc' = [pc EXCEPT !["ui"] = "rm_query"]
    /\ docs' = [docs EXCEPT !["ui"] = <<id>>]
    /\ idx' = [idx EXCEPT !["ui"] = 1]
    /\ Quiet
    /\ UNCHANGED <<now, notifications, localProducts, passNow, batch, updatesMade, ck,
                   upq, schedVars, localVars, prevPassNow>>

\* getDocs(query(notificationsRef, where('productId', '==', productId)))
RP_Query ==
    /\ pc["ui"] = "rm_query"
    /\ ck' = [ck EXCEPT !["ui"] =
                 [CkNone EXCEPT !.nExists = notifications[CurrentDoc("ui")].exists]]
    /\ pc' = [pc EXCEPT !["ui"] = "rm_notifs"]
    /\ Quiet
    /\ UNCHANGED <<now, storeVars, passNow, docs, batch, updatesMade, idx, upq,
                   schedVars, localVars, prevPassNow>>

\* await Promise.all(deletions)
RP_DeleteNotifs ==
    /\ pc["ui"] = "rm_notifs"
    /\ notifications' =
          IF ck["ui"].nExists
          THEN [notifications EXCEPT ![CurrentDoc("ui")] = NoNotification]
          ELSE notifications
    /\ ck' = [ck EXCEPT !["ui"] = CkNone]
    /\ pc' = [pc EXCEPT !["ui"] = "idle"]
    /\ Quiet
    /\ UNCHANGED <<now, products, localProducts, passNow, docs, batch, updatesMade, idx,
                   upq, schedVars, localVars, prevPassNow>>

\* removeProduct(productId) run to its end by another client of the same
\* Firestore project: the product and the alerts that name it are deleted.
RP_Elsewhere(id) ==
    /\ products[id].exists
    /\ products' = [products EXCEPT ![id] = NoProduct]
    /\ notifications' = [notifications EXCEPT ![id] = NoNotification]
    /\ Quiet
    /\ UNCHANGED <<now, localProducts, passVars, schedVars, localVars, prevPassNow>>

\* ------------------------------------------------------------------ clock

\* Time passes, up to the instant last.
TickUntil(last) ==
    /\ now + TickStep <= last
    /\ now' = now + TickStep
    /\ Quiet
    /\ UNCHANGED <<storeVars, passVars, schedVars, prevPassNow, localVars>>

Tick == TickUntil(MaxNow)

\* ------------------------------------------------------------------ decrementLocalQuantities

\* Date.toISOString(): the local store keeps dates as ISO 8601 strings.
ToISOString(t) == [iso |-> t]

\* No lastDecremented field on a local product.
NoIso == [iso |-> Undefined]

NoLocalProduct ==
    [exists |-> FALSE, quantity |-> 0, rate |-> NoRate, minStockLevel |-> Undefined,
     lastDecremented |-> NoIso, lastUpdated |-> NoIso]

\* updatedProducts before decrementLocalQuantities() has mapped anything.
NoLocalList == [id \in Items |-> NoLocalProduct]

\* new Date(product.lastDecremented), the epoch when the field is missing or
\* does not parse.
LocalLastDecrementedDate(p) ==
    IF IsNumber(p.lastDecremented.iso) THEN p.lastDecremented.iso ELSE 0

\* if (!rate || product.quantity <= 0 || !rate.amount || rate.amount <= 0 ||
\*     !['hour','day','week','month'].includes(rate.unit)) return product;
LocalSkips(p) ==
    \/ p.rate = NoRate
    \/ ~IsNumber(p.quantity)
    \/ p.quantity <= 0
    \/ ~IsNumber(p.rate.amount)
    \/ p.rate.amount <= 0
    \/ p.rate.unit \notin Units

\* The body of products.map(...) with lastDecremented set to `now` also when
\* no whole period has elapsed.
LocalDecremented_StampsZeroPeriods(p, t) ==
    LET diffTime == t - LocalLastDecrementedDate(p)
        k == IF diffTime <= 0 THEN 0 ELSE PeriodsPassed(p.rate, diffTime)
        newQuantity == Max(0, p.quantity - k * p.rate.amount)
    IN  IF ~p.exists \/ LocalSkips(p) \/ diffTime <= 0 THEN p
        ELSE IF newQuantity < p.quantity
             THEN [p EXCEPT !.quantity = newQuantity,
                            !.lastDecremented = ToISOString(t),
                            !.lastUpdated = ToISOString(t)]
        ELSE IF p.quantity > 0
             THEN [p EXCEPT !.lastDecremented = ToISOString(t)]
        ELSE p

\* The body of products.map(...) for one product at instant t.
LocalDecremented(p, t) ==
    LET diffTime == t - LocalLastDecrementedDate(p)
        k == IF diffTime <= 0 THEN 0 ELSE PeriodsPassed(p.rate, diffTime)
        newQuantity == Max(0, p.quantity - k * p.rate.amount)
    IN  IF ~p.exists \/ LocalSkips(p) \/ diffTime <= 0 \/ k <= 0 THEN p
        ELSE IF newQuantity < p.quantity
             THEN [p EXCEPT !.quantity = newQuantity,
                            !.lastDecremented = ToISOString(t),
                            !.lastUpdated = ToISOString(t)]
        ELSE IF p.quantity > 0
             THEN [p EXCEPT !.lastDecremented = ToISOString(t)]
        ELSE p

\* decrementLocalQuantities() up to its first await (AsyncStorage.getItem).
StartLocalPass ==
    /\ lpc' = "read"
    /\ UNCHANGED <<lnow, lupdated, removing>>

\* getAllProducts() resolves; now = new Date(); products.map(...).
L_Read ==
    /\ lpc = "read"
    /\ ~faults.nullEntry
    /\ LET upd == [id \in Items |-> LocalDecremented(localProducts[id], now)]
       IN  IF \A id \in Items : ~localProducts[id].exists
           THEN /\ lpc' = "end"
                /\ UNCHANGED <<lnow, lupdated, removing>>
           ELSE /\ lnow' = now
                /\ lupdated' = upd
                /\ removing' = removing
                /\ lpc' = IF upd # localProducts THEN "write" ELSE "end"
    /\ Silent
    /\ faults' = [faults EXCEPT !.manual = {}]
    /\ UNCHANGED <<now, storeVars, passVars, schedVars, prevPassNow>>

\* AsyncStorage.setItem(PRODUCTS_STORAGE_KEY, JSON.stringify(updatedProducts))
L_Write ==
    /\ lpc = "write"
    /\ localProducts' = lupdated
    /\ lpc' = "end"
    /\ faults' = [faults EXCEPT
                     !.taken.local =
                         [id \in Items |->
                             @[id] + Lowered(localProducts[id].quantity,
                                             lupdated[id].quantity)],
                     !.manual = {},
                     !.localLost = {},
                     !.recovered = @ \cup {<<"local", r.id>> : r \in faults.localLost}]
    /\ emitted' = {}
    /\ lastCheck' = NoCheck
    /\ cleared' = cleared
    /\ UNCHANGED <<now, products, notifications, passVars, schedVars, lnow, lupdated, removing,
                   prevPassNow>>

\* AsyncStorage.getItem() rejects: getAllProducts() logs and resolves to [],
\* and the pass returns for want of products.
L_ReadFails ==
    /\ lpc = "read"
    /\ lpc' = "end"
    /\ Quiet
    /\ UNCHANGED <<now, storeVars, passVars, schedVars, lnow, lupdated, removing,
                   prevPassNow>>

\* What a rejected AsyncStorage.setItem() leaves under the products key: the
\* value stored before the call.
RejectedSetItem(stored, upd) == stored

\* L_WriteFails without the try/catch around setItem: the pass rejects.
L_WriteFails_Rethrows ==
    /\ lpc = "write"
    /\ localProducts' = RejectedSetItem(localProducts, lupdated)
    /\ lpc' = "thrown"
    /\ Quiet
    /\ UNCHANGED <<now, products, notifications, passVars, schedVars, lnow, lupdated, removing,
                   prevPassNow>>

\* AsyncStorage.setItem(...) rejects; the catch block logs and the pass ends.
L_WriteFails ==
    /\ lpc = "write"
    /\ localProducts' = RejectedSetItem(localProducts, lupdated)
    /\ lpc' = "end"
    /\ faults' = [faults EXCEPT
                     !.manual = {},
                     !.localLost = {LostRecord(id, localProducts[id]) :
                                       id \in {i \in Items : /\ localProducts[i].exists
                                                             /\ lupdated[i] # localProducts[i]}}]
    /\ emitted' = {}
    /\ lastCheck' = NoCheck
    /\ cleared' = cleared
    /\ UNCHANGED <<now, products, notifications, passVars, schedVars, lnow, lupdated, removing,
                   prevPassNow>>

\* getAllProducts() resolves with a list holding a null entry: products.map
\* reads product.consumptionRate of null, outside any try block, and the
\* promise of decrementLocalQuantities() rejects.
L_ReadThrows ==
    /\ lpc = "read"
    /\ faults.nullEntry
    /\ lpc' = "thrown"
    /\ Quiet
    /\ UNCHANGED <<now, storeVars, passVars, schedVars, prevPassNow, lnow, lupdated, removing>>

LocalPassStep == L_Read \/ L_Write

\* ------------------------------------------------------------------ removeProduct (local store)

\* removeProduct(id) of the local store up to the resolution of
\* getAllProducts(); a product that is not in the list makes it return.
LRP_Read(id) ==
    /\ pc["ui"] = "idle"
    /\ localProducts[id].exists
    /\ removing' = localProducts
    /\ docs' = [docs EXCEPT !["ui"] = <<id>>]
    /\ pc' = [pc EXCEPT !["ui"] = "lrm_write"]
    /\ Quiet
    /\ UNCHANGED <<now, storeVars, passNow, batch, updatesMade, idx, ck, upq, schedVars,
                   lpc, lnow, lupdated, prevPassNow>>

\* products.filter((p) => p.id !== id), AsyncStorage.setItem(...)
LRP_Write ==
    /\ pc["ui"] = "lrm_write"
    /\ localProducts' = [removing EXCEPT ![docs["ui"][1]] = NoLocalProduct]
    /\ removing' = NoLocalList
    /\ docs' = [docs EXCEPT !["ui"] = <<>>]
    /\ pc' = [pc EXCEPT !["ui"] = "idle"]
    /\ Quiet
    /\ UNCHANGED <<now, products, notifications, passNow, batch, updatesMade, idx, ck, upq,
                   schedVars, lpc, lnow, lupdated, prevPassNow>>

\* ------------------------------------------------------------------ manual writes (AsyncStorage)

\* updateLocalProductQuantity(productId, newQuantity) up to the resolution of
\* getAllProducts() and the update of the entry in the list read; a product
\* that is not in the list makes it return.
ULQ_Read(id, newQuantity) ==
    /\ pc["ui"] = "idle"
    /\ localProducts[id].exists
    /\ removing' = [localProducts EXCEPT ![id].quantity = newQuantity,
                                         ![id].lastUpdated = ToISOString(now)]
    /\ docs' = [docs EXCEPT !["ui"] = <<id>>]
    /\ pc' = [pc EXCEPT !["ui"] = "lw_write"]
    /\ Quiet
    /\ UNCHANGED <<now, storeVars, passNow, batch, updatesMade, idx, ck, upq, schedVars,
                   lpc, lnow, lupdated, prevPassNow>>

\* storeProduct(product) up to the resolution of getAllProducts() and the
\* replacement (or addition) of the entry in the list read.
SP_Read(id, product) ==
    /\ pc["ui"] = "idle"
    /\ removing' = [localProducts EXCEPT ![id] = product]
    /\ docs' = [docs EXCEPT !["ui"] = <<id>>]
    /\ pc' = [pc EXCEPT !["ui"] = "lw_write"]
    /\ Quiet
    /\ UNCHANGED <<now, storeVars, passNow, batch, updatesMade, idx, ck, upq, schedVars,
                   lpc, lnow, lupdated, prevPassNow>>

\* AsyncStorage.setItem(PRODUCTS_STORAGE_KEY, JSON.stringify(products)) of
\* either manual write.
LW_Write ==
    /\ pc["ui"] = "lw_write"
    /\ localProducts' = removing
    /\ removing' = NoLocalList
    /\ docs' = [docs EXCEPT !["ui"] = <<>>]
    /\ pc' = [pc EXCEPT !["ui"] = "idle"]
    /\ Silent
    /\ faults' = IF lpc = "write"
                 THEN [faults EXCEPT !.manual =
                          {m \in @ : m.id # docs["ui"][1]}
                             \cup {[id |-> docs["ui"][1],
                                    product |-> removing[docs["ui"][1]]]}]
                 ELSE faults
    /\ UNCHANGED <<now, products, notifications, passNow, batch, updatesMade, idx, ck, upq,
                   schedVars, lpc, lnow, lupdated, prevPassNow>>

\* ------------------------------------------------------------------ usePeriodicSync

\* Intervals and buffer, in seconds.
LOCAL_DECREMENT_INTERVAL == 900
FIREBASE_DECREMENT_INTERVAL == 3600
RUN_BUFFER_MS == 5

\* useFirebase().isFirebaseAvailable
isFirebaseAvailable == ~faults.noFirebase

\* queryClient.invalidateQueries({ queryKey: [key] }) for each key of keys.
InvalidateQueries(keys) == {<<key, "invalidate">> : key \in keys}

\* LocalDue without the comparison with the last run.
LocalDue_Always(t, last) == TRUE

\* now - lastLocalRun.current > LOCAL_DECREMENT_INTERVAL - RUN_BUFFER_MS
LocalDue(t, last) == t - last > LOCAL_DECREMENT_INTERVAL - RUN_BUFFER_MS

\* now - lastFirebaseRun.current > FIREBASE_DECREMENT_INTERVAL - RUN_BUFFER_MS
FirebaseDue(t, last) == t - last > FIREBASE_DECREMENT_INTERVAL - RUN_BUFFER_MS

\* The Firebase section of runSyncTasks for a cycle started at t: the remote
\* pass when due, else the finally block.
FirebaseSection(t) ==
    IF isFirebaseAvailable /\ FirebaseDue(t, lastFirebaseRun)
    THEN /\ spc' = "remote"
         /\ isRunning' = TRUE
         /\ cycleNow' = 0
         /\ StartRemotePass("sync")
    ELSE /\ spc' = "idle"
         /\ isRunning' = FALSE
         /\ cycleNow' = 0
         /\ UNCHANGED passVars

\* The instants of the triggers that started each backend's last pass, after
\* a cycle triggered at t has reached the pass of backend b.
StartedAt(b, t) == [faults.started EXCEPT ![b] = t]

\* The same record after a trigger at t has passed the isRunning guard.
StartedBy(t) ==
    IF LocalDue(t, lastLocalRun) THEN StartedAt("local", t)
    ELSE IF isFirebaseAvailable /\ FirebaseDue(t, lastFirebaseRun) THEN StartedAt("remote", t)
    ELSE faults.started

\* RunSyncTasks without the isRunning guard.
RunSyncTasks_NoGuard ==
    /\ faults' = [faults EXCEPT !.dropped = FALSE, !.started = StartedBy(now)]
    /\ IF LocalDue(now, lastLocalRun)
       THEN /\ cycleNow' = now
            /\ spc' = "local"
            /\ isRunning' = TRUE
            /\ StartLocalPass
            /\ UNCHANGED passVars
       ELSE /\ FirebaseSection(now)
            /\ UNCHANGED localVars

\* runSyncTasks(reason), from the guard to its first await.
RunSyncTasks ==
    IF isRunning
    THEN /\ faults' = [faults EXCEPT !.dropped = TRUE]
         /\ UNCHANGED <<isRunning, spc, cycleNow, passVars, localVars>>
    ELSE /\ faults' = [faults EXCEPT !.dropped = FALSE, !.started = StartedBy(now)]
         /\ IF LocalDue(now, lastLocalRun)
            THEN /\ cycleNow' = now
                 /\ spc' = "local"
                 /\ isRunning' = TRUE
                 /\ StartLocalPass
                 /\ UNCHANGED passVars
            ELSE /\ FirebaseSection(now)
                 /\ UNCHANGED localVars

\* setInterval(() => runSyncTasks('Local Interval'), LOCAL_DECREMENT_INTERVAL)
LocalInterval ==
    /\ RunSyncTasks
    /\ Silent
    /\ UNCHANGED <<now, storeVars, bgRuns, appState, lastLocalRun, lastFirebaseRun, prevPassNow>>

\* setInterval(() => runSyncTasks('Firebase Interval'), FIREBASE_DECREMENT_INTERVAL)
FirebaseInterval ==
    /\ isFirebaseAvailable
    /\ RunSyncTasks
    /\ Silent
    /\ UNCHANGED <<now, storeVars, bgRuns, appState, lastLocalRun, lastFirebaseRun, prevPassNow>>

\* handleAppStateChange(nextAppState)
HandleAppStateChange(nextAppState) ==
    /\ nextAppState # appState
    /\ IF appState \in {"inactive", "background"} /\ nextAppState = "active"
       THEN RunSyncTasks
       ELSE UNCHANGED <<isRunning, spc, cycleNow, passVars, localVars, faults>>
    /\ appState' = nextAppState
    /\ Silent
    /\ UNCHANGED <<now, storeVars, bgRuns, lastLocalRun, lastFirebaseRun, prevPassNow>>

\* await decrementLocalQuantities() has resolved: lastLocalRun, the
\* invalidation of the local products query, then the Firebase section.
SyncAfterLocal ==
    /\ spc = "local"
    /\ lpc = "end"
    /\ lastLocalRun' = now
    /\ lpc' = "idle"
    /\ FirebaseSection(cycleNow)
    /\ prevPassNow' = [prevPassNow EXCEPT !.local = lnow]
    /\ emitted' = InvalidateQueries({"localProducts"})
    /\ lastCheck' = NoCheck
    /\ cleared' = cleared
    /\ faults' = IF spc' = "idle"
                 THEN [faults EXCEPT !.dropped = FALSE]
                 ELSE [faults EXCEPT !.started = StartedAt("remote", cycleNow)]
    /\ lnow' = 0
    /\ lupdated' = NoLocalList
    /\ removing' = removing
    /\ UNCHANGED <<now, storeVars, bgRuns, appState, lastFirebaseRun>>

\* The catch block of runSyncTasks without the finally block.
SyncCatchLocal_NoFinally ==
    /\ spc = "local"
    /\ lpc = "thrown"
    /\ lpc' = "idle"
    /\ spc' = "idle"
    /\ isRunning' = isRunning
    /\ cycleNow' = 0
    /\ Silent
    /\ faults' = [faults EXCEPT !.dropped = FALSE]
    /\ UNCHANGED <<now, storeVars, passVars, bgRuns, appState, lastLocalRun, lastFirebaseRun,
                   lnow, lupdated, removing, prevPassNow>>

\* await decrementLocalQuantities() has rejected: the catch block of
\* runSyncTasks logs, then finally.
SyncCatchLocal ==
    /\ spc = "local"
    /\ lpc = "thrown"
    /\ lpc' = "idle"
    /\ spc' = "idle"
    /\ isRunning' = FALSE
    /\ cycleNow' = 0
    /\ Silent
    /\ faults' = [faults EXCEPT !.dropped = FALSE]
    /\ UNCHANGED <<now, storeVars, passVars, bgRuns, appState, lastLocalRun, lastFirebaseRun,
                   lnow, lupdated, removing, prevPassNow>>

\* await decrementFirebaseQuantities() has resolved: lastFirebaseRun, the
\* invalidation of the Firebase queries, finally.
SyncAfterRemote ==
    /\ spc = "remote"
    /\ pc["sync"] = "end"
    /\ lastFirebaseRun' = now
    /\ ReturnFromPass("sync")
    /\ spc' = "idle"
    /\ isRunning' = FALSE
    /\ prevPassNow' = [prevPassNow EXCEPT !.remote = passNow["sync"]]
    /\ emitted' = InvalidateQueries({"products", "notifications"})
    /\ lastCheck' = NoCheck
    /\ cleared' = cleared
    /\ faults' = [faults EXCEPT !.dropped = FALSE]
    /\ UNCHANGED <<now, storeVars, bgRuns, appState, cycleNow, lastLocalRun, localVars>>

\* ------------------------------------------------------------------ updateProductQuantity

\* Largest quantity a manual update may produce in the model.
MaxQuantity == 9

\* quantityToAdd of the manual updates of the model.
Deltas == {-2, 6}

\* updateProductQuantity(productId, quantityToAdd) up to its first await.
UPQ_Start(id, quantityToAdd) ==
    /\ pc["ui"] = "idle"
    /\ products[id].exists
    /\ JsAdd(products[id].quantity, quantityToAdd) <= MaxQuantity
    /\ pc' = [pc EXCEPT !["ui"] = "upq_read"]
    /\ docs' = [docs EXCEPT !["ui"] = <<id>>]
    /\ idx' = [idx EXCEPT !["ui"] = 1]
    /\ upq' = [UpqNone EXCEPT !.quantityToAdd = quantityToAdd]
    /\ Quiet
    /\ UNCHANGED <<now, storeVars, passNow, batch, updatesMade, ck, schedVars,
                   localVars, prevPassNow>>

\* getDoc(productRef); currentQuantity = productData.quantity || 0;
\* newQuantity = Math.max(0, currentQuantity + quantityToAdd).
UPQ_Read ==
    /\ pc["ui"] = "upq_read"
    /\ LET prod == products[CurrentDoc("ui")]
       IN  IF prod.exists
           THEN /\ upq' = [upq EXCEPT
                       !.newQuantity = Max(0, OrZero(prod.quantity) + upq.quantityToAdd),
                       !.minStockLevel = prod.minStockLevel]
                /\ pc' = [pc EXCEPT !["ui"] = "upq_write"]
           ELSE /\ upq' = UpqNone
                /\ pc' = [pc EXCEPT !["ui"] = "idle"]
    /\ Quiet
    /\ UNCHANGED <<now, storeVars, passNow, docs, batch, updatesMade, idx, ck,
                   schedVars, localVars, prevPassNow>>

\* setDoc(productRef, {quantity, lastUpdated}, {merge: true}), which creates
\* the document with these two fields when it has been deleted meanwhile, then
\* checkLowStock(productId, newQuantity, name, minStockLevel).
UPQ_Write ==
    /\ pc["ui"] = "upq_write"
    /\ products' = [products EXCEPT ![CurrentDoc("ui")].exists = TRUE,
                                    ![CurrentDoc("ui")].quantity = upq.newQuantity,
                                    ![CurrentDoc("ui")].lastUpdated = now]
    /\ ck' = [ck EXCEPT !["ui"] = CheckArgs(upq.newQuantity, upq.minStockLevel)]
    /\ upq' = UpqNone
    /\ pc' = [pc EXCEPT !["ui"] = "cls_prod"]
    /\ Quiet
    /\ UNCHANGED <<now, notifications, localProducts, passNow, docs, batch,
                   updatesMade, idx, schedVars, localVars, prevPassNow>>

\* One step of checkLowStock, whoever called it.
CheckStep(p) == CLS_ReadProduct(p) \/ CLS_ReadNotif(p) \/ CLS_Act(p)

\* ------------------------------------------------------------------ initial states

\* Instant at which the products of the initial state were stored.
Created == Start - TickStep

RemoteProduct(q, rate, min, reorder, lastDec) ==
    [exists |-> TRUE, quantity |-> q, rate |-> rate, minStockLevel |-> min,
     reorderQuantity |-> reorder, lastDecremented |-> lastDec, lastUpdated |-> Created]


LocalProduct(q, rate, min, lastDec) ==
    [exists |-> TRUE, quantity |-> q, rate |-> rate, minStockLevel |-> min,
     lastDecremented |-> lastDec, lastUpdated |-> ToISOString(Created)]

HourlyRate(a, per) == [amount |-> a, period |-> per, unit |-> "hour"]

\* Everything but the stores and the application state: nothing is running,
\* setupIntervals() has just set both last-run times.
InitIdleRuns(t, lastLocal, lastFirebase, f, runs) ==
    /\ now = t
    /\ notifications = [id \in Items |-> NoNotification]
    /\ pc = [p \in Callers |-> "idle"]
    /\ passNow = [p \in Callers |-> 0]
    /\ docs = [p \in Callers |-> <<>>]
    /\ batch = [p \in Callers |-> {}]
    /\ updatesMade = [p \in Callers |-> 0]
    /\ idx = [p \in Callers |-> 0]
    /\ ck = [p \in Callers |-> CkNone]
    /\ upq = UpqNone
    /\ emitted = {}
    /\ lastCheck = NoCheck
    /\ cleared = {}
    /\ isRunning = FALSE
    /\ spc = "idle"
    /\ cycleNow = 0
    /\ lastLocalRun = lastLocal
    /\ lastFirebaseRun = lastFirebase
    /\ lpc = "idle"
    /\ lnow = 0
    /\ removing = NoLocalList
    /\ bgRuns = runs
    /\ faults = f
    /\ prevPassNow = [remote |-> Undefined, local |-> Undefined]

InitIdleWith(t, lastLocal, lastFirebase, f) ==
    InitIdleRuns(t, lastLocal, lastFirebase, f, 0)

\* Nothing is running at instant t, and setupIntervals() ran at instant mounted.
InitIdleAt(t, mounted) == InitIdleWith(t, mounted, mounted, NoFaults)

\* The application has just been mounted at Start.
InitIdle == InitIdleAt(Start, Start)

\* ---- the remote pass on its own: decrementQuantities() called by the
\* ---- background task, with acknowledgments arriving at any moment.

PassProductsP1 ==
    {RemoteProduct(q, HourlyRate(2, 1), min, r, ld) :
        q \in {0, 3, 7}, min \in {Undefined, 4}, r \in {Undefined, 1, 3},
        ld \in {Undefined, Created}}

PassProductsP2 ==
    {RemoteProduct(5, HourlyRate(1, 2), 4, 2, Created),
     RemoteProduct(3, HourlyRate(0, 1), 4, 2, Created), NoProduct}

InitPass ==
    /\ InitIdle
    /\ appState = "background"
    /\ products \in {[id \in Items |-> IF id = "p1" THEN a ELSE b] :
                        a \in PassProductsP1, b \in PassProductsP2}
    /\ localProducts = [id \in Items |-> NoLocalProduct]
    /\ lupdated = NoLocalList

NextPass ==
    \/ BgTaskStart
    \/ RemotePassStep("bg")
    \/ BgTaskFinish
    \/ \E id \in Items : AcknowledgeNotification(id)
    \/ Tick

SpecPass == InitPass /\ [][NextPass]_vars

\* ---- checkLowStock on its own: called by updateProductQuantity() after
\* ---- each manual update, with acknowledgments arriving at any moment.

CheckProductsP1 ==
    {RemoteProduct(q, NoRate, min, r, Undefined) :
        q \in {0, 3, 7}, min \in {Undefined, 0, 4}, r \in {Undefined, 3}}

InitCheck ==
    /\ InitIdle
    /\ appState = "active"
    /\ products \in {[id \in Items |-> IF id = "p1" THEN a ELSE NoProduct] :
                        a \in CheckProductsP1}
    /\ localProducts = [id \in Items |-> NoLocalProduct]
    /\ lupdated = NoLocalList

NextCheck ==
    \/ \E id \in Items, d \in Deltas : UPQ_Start(id, d)
    \/ UPQ_Read
    \/ UPQ_Write
    \/ CheckStep("ui")
    \/ \E id \in Items : AcknowledgeNotification(id)
    \/ Tick

SpecCheck == InitCheck /\ [][NextCheck]_vars

\* ---- manual updates of a product that another client removes at any
\* ---- moment.

NextRemoved ==
    \/ NextCheck
    \/ \E id \in Items : RP_Elsewhere(id)

SpecRemoved == InitCheck /\ [][NextRemoved]_vars

\* ---- the scheduling of the passes: the scheduler's timers and foreground
\* ---- event, the local and the remote pass, and the background task.

AppStates == {"active", "inactive", "background"}

AppProductP1 == RemoteProduct(7, HourlyRate(2, 1), 4, 1, Undefined)

AppLocalProductP1 == LocalProduct(7, HourlyRate(2, 1), 4, ToISOString(Created))

Init ==
    /\ InitIdle
    /\ appState = "active"
    /\ products = [id \in Items |-> IF id = "p1" THEN AppProductP1 ELSE NoProduct]
    /\ localProducts =
          [id \in Items |-> IF id = "p1" THEN AppLocalProductP1 ELSE NoLocalProduct]
    /\ lupdated = NoLocalList

Next ==
    \/ LocalInterval
    \/ FirebaseInterval
    \/ \E s \in AppStates : HandleAppStateChange(s)
    \/ LocalPassStep
    \/ SyncAfterLocal
    \/ RemotePassStep("sync")
    \/ SyncAfterRemote
    \/ BgTaskStart
    \/ RemotePassStep("bg")
    \/ BgTaskFinish
    \/ TickUntil(Start + 2 * TickStep)

Spec == Init /\ [][Next]_vars

\* ---- the period calculation: one product with every combination of unit,
\* ---- period, amount and elapsed time, decremented once by each backend (the
\* ---- local timer's first firing, the background task).

\* The instant of the passes: three average months after the epoch.
CalcNow == 3 * UnitSeconds("month")

\* Seconds elapsed since lastDecremented: below, at and above one and two
\* periods of each unit (250560 s = 2.9 days).
CalcElapsed ==
    {1800, 3600, 12600, 86399, 86400, 250560, 604800, 1209605, 2629799, 2629800,
     5259700}

CalcRates ==
    {[amount |-> a, period |-> per, unit |-> u] :
        a \in {1, 2}, per \in {1, 2}, u \in Units}

InitCalc ==
    /\ InitIdleAt(CalcNow, CalcNow - LOCAL_DECREMENT_INTERVAL)
    /\ appState = "background"
    /\ \E q \in {1, 5, 9}, rate \in CalcRates, d \in CalcElapsed :
          /\ products =
                [id \in Items |->
                    IF id = "p1" THEN RemoteProduct(q, rate, 4, 1, CalcNow - d)
                    ELSE NoProduct]
          /\ localProducts =
                [id \in Items |->
                    IF id = "p1" THEN LocalProduct(q, rate, 4, ToISOString(CalcNow - d))
                    ELSE NoLocalProduct]
    /\ lupdated = NoLocalList

NextCalc ==
    \/ LocalInterval
    \/ LocalPassStep
    \/ SyncAfterLocal
    \/ BgTaskStart
    \/ RemotePassStep("bg")
    \/ BgTaskFinish

SpecCalc == InitCalc /\ [][NextCalc]_vars

\* ---- the edges of eligibility: one product, the same in both stores, with a
\* ---- quantity of 0 or more and a rate that is valid, has a period of 0 or
\* ---- less, or has an unknown unit; each backend decrements it once at the
\* ---- same instant, one or two hours after lastDecremented.

EdgeRates ==
    {[amount |-> 2, period |-> per, unit |-> u] :
        per \in {-1, 0, 1}, u \in {"hour", "year"}}

EdgeElapsed == {1800, 3600, 7200}

InitEdge ==
    /\ InitIdleAt(Start, Start - LOCAL_DECREMENT_INTERVAL)
    /\ appState = "background"
    /\ \E q \in {0, 3, 7}, rate \in EdgeRates, d \in EdgeElapsed :
          /\ products =
                [id \in Items |->
                    IF id = "p1" THEN RemoteProduct(q, rate, 4, 1, Start - d)
                    ELSE NoProduct]
          /\ localProducts =
                [id \in Items |->
                    IF id = "p1" THEN LocalProduct(q, rate, 4, ToISOString(Start - d))
                    ELSE NoLocalProduct]
    /\ lupdated = NoLocalList

SpecEdge == InitEdge /\ [][NextCalc]_vars

\* ---- fractional amounts: one product, the same in both stores, consuming
\* ---- a half, one or one and a half per hour; each backend decrements it
\* ---- once at the same instant. The arithmetic of the passes (subtraction,
\* ---- multiplication by a number of periods, Math.max with 0, comparisons)
\* ---- is exact on multiples of 0.5, so the states of this specification
\* ---- count quantity, amount, minStockLevel and reorderQuantity in halves.

\* The number x of the program, in halves.
Halves(x) == x * 2

\* Number.isInteger(q), for q counted in halves.
IsInteger(q) == q % 2 = 0

InitFraction ==
    /\ InitIdleAt(Start, Start - LOCAL_DECREMENT_INTERVAL)
    /\ appState = "background"
    /\ \E q \in {1, 2, 3, 5}, a \in {1, 2, 3}, d \in {1800, 3600, 7200} :
          LET rate == HourlyRate(a, 1)
          IN  /\ products =
                    [id \in Items |->
                        IF id = "p1"
                        THEN RemoteProduct(Halves(q), rate, Halves(4), Halves(1), Start - d)
                        ELSE NoProduct]
              /\ localProducts =
                    [id \in Items |->
                        IF id = "p1"
                        THEN LocalProduct(Halves(q), rate, Halves(4), ToISOString(Start - d))
                        ELSE NoLocalProduct]
    /\ lupdated = NoLocalList

SpecFraction == InitFraction /\ [][NextCalc]_vars

\* ---- both passes under faults: two products with a staged update each in
\* ---- either store, removeProduct() at any moment, an alert store that
\* ---- rejects writes during the first run of the background task, and a
\* ---- local store that can reject a save. The application was mounted one
\* ---- local interval before Start, and the clock advances once.

FaultProductP1 == RemoteProduct(6, HourlyRate(4, 1), 4, 1, Created - TickStep)
FaultProductP2 == RemoteProduct(5, HourlyRate(1, 1), 4, 2, Created - TickStep)
FaultLocalProductP1 == LocalProduct(6, HourlyRate(4, 1), 4, ToISOString(Created - TickStep))
FaultLocalProductP2 == LocalProduct(5, HourlyRate(1, 1), 4, ToISOString(Created - TickStep))

InitFault ==
    /\ InitIdleAt(Start, Start - LOCAL_DECREMENT_INTERVAL)
    /\ appState = "background"
    /\ products = [id \in Items |-> IF id = "p1" THEN FaultProductP1 ELSE FaultProductP2]
    /\ localProducts =
           [id \in Items |-> IF id = "p1" THEN FaultLocalProductP1 ELSE FaultLocalProductP2]
    /\ lupdated = NoLocalList

NextFault ==
    \/ BgTaskStart
    \/ RemotePassStep("bg")
    \/ CLS_ActFails("bg")
    \/ BgTaskFinish
    \/ \E id \in Items : RP_Delete(id)
    \/ RP_Query
    \/ RP_DeleteNotifs
    \/ LocalInterval
    \/ LocalPassStep
    \/ L_WriteFails
    \/ SyncAfterLocal
    \/ TickUntil(Start + TickStep)

SpecFault == InitFault /\ [][NextFault]_vars

\* ---- one scheduler cycle with both passes due: the application was mounted
\* ---- one Firebase interval before Start and the last cycle of the local
\* ---- timer ended one local interval before Start; the local list may hold
\* ---- a null entry, the local save may reject, and removeProduct() of
\* ---- either store may run at any moment.

InitCycle ==
    /\ \E f \in {NoFaults, NullEntryStored} :
          InitIdleWith(Start, Start - LOCAL_DECREMENT_INTERVAL,
                       Start - FIREBASE_DECREMENT_INTERVAL, f)
    /\ appState = "active"
    /\ products = [id \in Items |-> IF id = "p1" THEN FaultProductP1 ELSE FaultProductP2]
    /\ localProducts =
           [id \in Items |-> IF id = "p1" THEN FaultLocalProductP1 ELSE FaultLocalProductP2]
    /\ lupdated = NoLocalList

NextCycle ==
    \/ LocalInterval
    \/ FirebaseInterval
    \/ \E s \in AppStates : HandleAppStateChange(s)
    \/ LocalPassStep
    \/ L_WriteFails
    \/ L_ReadThrows
    \/ SyncAfterLocal
    \/ SyncCatchLocal
    \/ RemotePassStep("sync")
    \/ SyncAfterRemote
    \/ \E id \in Items : RP_Delete(id)
    \/ RP_Query
    \/ RP_DeleteNotifs
    \/ \E id \in Items : LRP_Read(id)
    \/ LRP_Write
    \/ TickUntil(Start + TickStep)

SpecCycle == InitCycle /\ [][NextCycle]_vars

\* ---- one scheduler cycle under outages: one product in either store, both
\* ---- passes due, after a first run of the background task; the application
\* ---- runs with or without a Firebase configuration, the local list may
\* ---- hold a null entry, any read or write of a store may reject, and
\* ---- another client may remove the product at any moment.

InitOutage ==
    /\ \E f \in {NoFaults, NullEntryStored, NotConfigured} :
          InitIdleRuns(Start, Start - LOCAL_DECREMENT_INTERVAL,
                       Start - FIREBASE_DECREMENT_INTERVAL, f, 1)
    /\ appState = "active"
    /\ products = [id \in Items |-> IF id = "p1" THEN FaultProductP1 ELSE NoProduct]
    /\ localProducts =
           [id \in Items |-> IF id = "p1" THEN FaultLocalProductP1 ELSE NoLocalProduct]
    /\ lupdated = NoLocalList

NextOutage ==
    \/ LocalInterval
    \/ FirebaseInterval
    \/ \E s \in AppStates : HandleAppStateChange(s)
    \/ LocalPassStep
    \/ L_ReadFails
    \/ L_WriteFails
    \/ L_ReadThrows
    \/ SyncAfterLocal
    \/ SyncCatchLocal
    \/ RemotePassStep("sync")
    \/ DQ_QueryFails("sync")
    \/ CLS_ActFails("sync")
    \/ SyncAfterRemote
    \/ \E id \in Items : RP_Elsewhere(id)
    \/ TickUntil(Start + TickStep)

\* A step of the running cycle of runSyncTasks: the call of a store that the
\* cycle awaits returns (resolves or rejects), and the code runs up to its
\* next await.
CycleStep ==
    \/ LocalPassStep
    \/ L_ReadFails
    \/ L_WriteFails
    \/ L_ReadThrows
    \/ SyncAfterLocal
    \/ SyncCatchLocal
    \/ RemotePassStep("sync")
    \/ DQ_QueryFails("sync")
    \/ CLS_ActFails("sync")
    \/ SyncAfterRemote

SpecOutage == InitOutage /\ [][NextOutage]_vars

\* The same cycle when every call of a store eventually returns.
SpecOutageFair == SpecOutage /\ WF_vars(CycleStep)

\* ---- manual writes around one local pass: one product in the local store,
\* ---- the local pass due at Start and the remote pass not; the user sets a
\* ---- quantity or stores a product at any moment.

\* newQuantity of the manual updates of the local store.
LocalQuantities == {1, 9}

\* The products the user stores in the local store.
StoredProducts == {LocalProduct(8, HourlyRate(1, 1), 2, NoIso)}

InitManual ==
    /\ InitIdleWith(Start, Start - LOCAL_DECREMENT_INTERVAL, Start, NoFaults)
    /\ appState = "active"
    /\ products = [id \in Items |-> NoProduct]
    /\ localProducts =
           [id \in Items |-> IF id = "p1" THEN FaultLocalProductP1 ELSE NoLocalProduct]
    /\ lupdated = NoLocalList

NextManual ==
    \/ LocalInterval
    \/ LocalPassStep
    \/ SyncAfterLocal
    \/ \E id \in Items, q \in LocalQuantities : ULQ_Read(id, q)
    \/ \E id \in Items, product \in StoredProducts : SP_Read(id, product)
    \/ LW_Write

SpecManual == InitManual /\ [][NextManual]_vars

\* ---- the application with and without a Firebase configuration: the
\* ---- scheduler and the background task, both passes due at Start.

InitOffline ==
    /\ \E f \in {NoFaults, NotConfigured} :
          InitIdleWith(Start, Start - LOCAL_DECREMENT_INTERVAL,
                       Start - FIREBASE_DECREMENT_INTERVAL, f)
    /\ appState = "active"
    /\ products = [id \in Items |-> IF id = "p1" THEN FaultProductP1 ELSE NoProduct]
    /\ localProducts =
           [id \in Items |-> IF id = "p1" THEN FaultLocalProductP1 ELSE NoLocalProduct]
    /\ lupdated = NoLocalList

NextOffline ==
    \/ LocalInterval
    \/ FirebaseInterval
    \/ \E s \in AppStates : HandleAppStateChange(s)
    \/ LocalPassStep
    \/ SyncAfterLocal
    \/ RemotePassStep("sync")
    \/ SyncAfterRemote
    \/ BgTaskStart
    \/ RemotePassStep("bg")
    \/ BgTaskFinish

SpecOffline == InitOffline /\ [][NextOffline]_vars

\* ---- the timers on their schedule: the local timer fires every
\* LOCAL_DECREMENT_INTERVAL and the Firebase timer every
\* FIREBASE_DECREMENT_INTERVAL, both counted from setupIntervals(); the
\* remote pass waits its 30 s between checkLowStock and AddStock.

\* setTimeout(resolve, 30000), in seconds.
ItemDelay == 30

\* Time passes by d seconds, up to the instant last.
Elapse(d, last) ==
    /\ now + d <= last
    /\ now' = now + d
    /\ Quiet
    /\ UNCHANGED <<storeVars, passVars, schedVars, prevPassNow, localVars>>

\* A timer of the given interval, set up a whole number of intervals before
\* Start, fires at this instant.
OnSchedule(interval) == (now - Start) % interval = 0

\* The timeout that decrementQuantities() awaits between checkLowStock and
\* AddStock has expired.
WaitOver(p) == pc[p] = "wait" => now >= passNow[p] + ItemDelay

InitTimer ==
    /\ InitIdleWith(Start, Start - LOCAL_DECREMENT_INTERVAL,
                    Start - FIREBASE_DECREMENT_INTERVAL, NoFaults)
    /\ appState = "active"
    /\ products = [id \in Items |-> IF id = "p1" THEN FaultProductP1 ELSE NoProduct]
    /\ localProducts =
           [id \in Items |-> IF id = "p1" THEN FaultLocalProductP1 ELSE NoLocalProduct]
    /\ lupdated = NoLocalList

NextTimer ==
    \/ OnSchedule(LOCAL_DECREMENT_INTERVAL) /\ LocalInterval
    \/ OnSchedule(FIREBASE_DECREMENT_INTERVAL) /\ FirebaseInterval
    \/ LocalPassStep
    \/ SyncAfterLocal
    \/ WaitOver("sync") /\ RemotePassStep("sync")
    \/ SyncAfterRemote
    \/ ~WaitOver("sync")
          /\ Elapse(ItemDelay, Start + FIREBASE_DECREMENT_INTERVAL + LOCAL_DECREMENT_INTERVAL)
    \/ ~isRunning
          /\ Elapse(LOCAL_DECREMENT_INTERVAL - ((now - Start) % LOCAL_DECREMENT_INTERVAL),
                    Start + FIREBASE_DECREMENT_INTERVAL + LOCAL_DECREMENT_INTERVAL)

SpecTimer == InitTimer /\ [][NextTimer]_vars

\* ---- passes that run more often than the period of the products: the
\* ---- scheduler's cycles over three instants half an hour apart, p1 consumed
\* ---- every hour and p2 every two hours, in either store.

AccumulateRemoteP1 == RemoteProduct(7, HourlyRate(2, 1), 5, 1, Created)
AccumulateRemoteP2 == RemoteProduct(5, HourlyRate(1, 2), 1, 1, Created - TickStep)
AccumulateLocalP1 == LocalProduct(7, HourlyRate(2, 1), 5, ToISOString(Created))
AccumulateLocalP2 == LocalProduct(5, HourlyRate(1, 2), 1, ToISOString(Created - TickStep))

InitAccumulate ==
    /\ InitIdleWith(Start, Start - LOCAL_DECREMENT_INTERVAL,
                    Start - FIREBASE_DECREMENT_INTERVAL, NoFaults)
    /\ appState = "active"
    /\ products = [id \in Items |-> IF id = "p1" THEN AccumulateRemoteP1
                                    ELSE AccumulateRemoteP2]
    /\ localProducts = [id \in Items |-> IF id = "p1" THEN AccumulateLocalP1
                                         ELSE AccumulateLocalP2]
    /\ lupdated = NoLocalList

NextAccumulate ==
    \/ LocalInterval
    \/ FirebaseInterval
    \/ LocalPassStep
    \/ SyncAfterLocal
    \/ RemotePassStep("sync")
    \/ SyncAfterRemote
    \/ TickUntil(Start + 2 * TickStep)

SpecAccumulate == InitAccumulate /\ [][NextAccumulate]_vars

\* ---- consumption down to zero: the scheduler's cycles over three instants
\* ---- half an hour apart, with no manual update; within that time the
\* ---- consumption rate of either product exceeds its quantity. p1 has a
\* ---- minStockLevel and a reorderQuantity, p2 has no minStockLevel.

DepleteRemoteP1 == RemoteProduct(3, HourlyRate(4, 1), 4, 1, Created - TickStep)
DepleteLocalP1 == LocalProduct(3, HourlyRate(4, 1), 4, ToISOString(Created - TickStep))
DepleteRemoteP2 == RemoteProduct(3, HourlyRate(4, 1), Undefined, 1, Created - TickStep)
DepleteLocalP2 == LocalProduct(3, HourlyRate(4, 1), Undefined, ToISOString(Created - TickStep))

InitDeplete ==
    /\ InitIdleWith(Start, Start - LOCAL_DECREMENT_INTERVAL,
                    Start - FIREBASE_DECREMENT_INTERVAL, NoFaults)
    /\ appState = "active"
    /\ products = [id \in Items |-> IF id = "p1" THEN DepleteRemoteP1 ELSE DepleteRemoteP2]
    /\ localProducts = [id \in Items |-> IF id = "p1" THEN DepleteLocalP1
                                         ELSE DepleteLocalP2]
    /\ lupdated = NoLocalList

NextDeplete ==
    \/ LocalInterval
    \/ FirebaseInterval
    \/ LocalPassStep
    \/ SyncAfterLocal
    \/ RemotePassStep("sync")
    \/ SyncAfterRemote
    \/ TickUntil(Start + 2 * TickStep)

SpecDeplete == InitDeplete /\ [][NextDeplete]_vars

\* The same when the timers keep firing, every awaited call of a running
\* cycle returns, and time keeps advancing (up to the last instant).
SpecDepleteFair ==
    /\ SpecDeplete
    /\ WF_vars(LocalInterval)
    /\ WF_vars(FirebaseInterval)
    /\ WF_vars(LocalPassStep \/ SyncAfterLocal \/ RemotePassStep("sync") \/ SyncAfterRemote)
    /\ WF_vars(TickUntil(Start + 2 * TickStep))

\* ---- the timers on their schedule and a remote pass of any duration: a
\* ---- call that the remote pass awaits may take until the next firing of
\* ---- the local timer to return.

NextSlowRemote ==
    \/ NextTimer
    \/ spc = "remote"
          /\ Elapse(LOCAL_DECREMENT_INTERVAL - ((now - Start) % LOCAL_DECREMENT_INTERVAL),
                    Start + FIREBASE_DECREMENT_INTERVAL + LOCAL_DECREMENT_INTERVAL)

SpecSlowRemote == InitTimer /\ [][NextSlowRemote]_vars

\* ================================================================== properties

\* The threshold a low-stock decision of checkLowStock compares against.
Threshold(minStockLevel) == IF minStockLevel = Undefined THEN 0 ELSE minStockLevel

AtOrBelow(quantity, minStockLevel) ==
    quantity # NaN /\ quantity <= Threshold(minStockLevel)

\* A checkLowStock call returned in the last step, having found the stock low
\* (at or below the threshold) / above the threshold.
ReturnedLow ==
    lastCheck.id # "none" /\ AtOrBelow(lastCheck.quantity, lastCheck.minStockLevel)
ReturnedAbove ==
    lastCheck.id # "none" /\ ~AtOrBelow(lastCheck.quantity, lastCheck.minStockLevel)

\* C3: an alert's acknowledged = true is never overwritten with false while
\* the item's quantity stays at or below the threshold, also when
\* acknowledgeNotification completes between checkLowStock's read of the
\* alert and its merge-write.
C3_AcknowledgedNeverOverwritten ==
    [][\A id \in Items :
         ( /\ notifications[id].exists
           /\ notifications[id].acknowledged
           /\ AtOrBelow(products[id].quantity, products[id].minStockLevel)
           /\ AtOrBelow(products'[id].quantity, products'[id].minStockLevel) )
         => ~(notifications'[id].exists /\ ~notifications'[id].acknowledged)]_vars

\* C4: a check that finds the quantity above the threshold leaves no alert
\* for the item, acknowledged or not; and after an acknowledged alert was
\* deleted that way, a check that finds the quantity at or below the
\* threshold (and no alert) leaves an alert with acknowledged = false.
C4_RecoveryDeletesAndResets ==
    /\ ReturnedAbove => ~notifications[lastCheck.id].exists
    /\ (ReturnedLow /\ lastCheck.id \in cleared /\ ~lastCheck.nExists)
          => ( /\ notifications[lastCheck.id].exists
               /\ ~notifications[lastCheck.id].acknowledged )

\* An acknowledged alert was deleted on recovery and a later check has just
\* created a fresh, unacknowledged one.
C4_Witness ==
    /\ ReturnedLow
    /\ lastCheck.id \in cleared
    /\ ~lastCheck.nExists
    /\ notifications[lastCheck.id].exists
    /\ ~notifications[lastCheck.id].acknowledged

\* C5: a check that finds an acknowledged alert and the quantity at or below
\* the threshold writes nothing to the alert: the record is as it was.
C5_AcknowledgedLowNoWrite ==
    (ReturnedLow /\ lastCheck.nAck)
        => notifications[lastCheck.id] = lastCheck.before

C5_Witness ==
    /\ ReturnedLow
    /\ lastCheck.nAck
    /\ lastCheck.before.exists
    /\ lastCheck.before.acknowledged
    /\ notifications[lastCheck.id].acknowledged

\* C6: a check that finds an acknowledged alert and the quantity at or below
\* the threshold emits no user-facing alert (no sound, no device
\* notification, no push message).
C6_AcknowledgedLowNoAlert ==
    (ReturnedLow /\ lastCheck.nAck) => emitted = {}

\* C7: a check of an existing item that finds the quantity at or below the
\* threshold and no alert record leaves an alert keyed by the item's id with
\* acknowledged = false and the checked quantity.
C7_LowCreatesAlert ==
    (ReturnedLow /\ ~lastCheck.nExists /\ products[lastCheck.id].exists)
        => ( /\ notifications[lastCheck.id].exists
             /\ ~notifications[lastCheck.id].acknowledged
             /\ notifications[lastCheck.id].quantity = lastCheck.quantity )

C7_Witness ==
    /\ ReturnedLow
    /\ ~lastCheck.nExists
    /\ ~lastCheck.before.exists
    /\ products[lastCheck.id].exists
    /\ notifications[lastCheck.id].exists
    /\ notifications[lastCheck.id].quantity = lastCheck.quantity

\* A consumption rate with a positive amount, a positive period and a
\* recognised unit.
ValidRate(rate) ==
    /\ rate # NoRate
    /\ IsNumber(rate.amount) /\ rate.amount > 0
    /\ IsNumber(rate.period) /\ rate.period > 0
    /\ rate.unit \in Units

\* Some step of a decrement pass of either backend.
AnyPassStep == (\E p \in Procs : RemotePassStep(p)) \/ LocalPassStep

\* C1: no step of a decrement pass (of either backend, every step the pass
\* performs included) increases the stored quantity of an item with a valid
\* consumption rate; the clock never goes back.
C1_PassNeverIncreasesQuantity ==
    [][AnyPassStep =>
         \A id \in Items :
            /\ ValidRate(products[id].rate)
                  => ~( /\ IsNumber(products[id].quantity)
                        /\ IsNumber(products'[id].quantity)
                        /\ products'[id].quantity > products[id].quantity )
            /\ ValidRate(localProducts[id].rate)
                  => ~(localProducts'[id].quantity > localProducts[id].quantity)]_vars

\* Nothing is in flight: no pass, no check, no manual update, no cycle.
NothingInFlight ==
    /\ \A p \in Callers : pc[p] = "idle"
    /\ lpc = "idle"
    /\ spc = "idle"

\* C8: whenever nothing is in flight and a remote pass has completed, every
\* item that pass examined (the items its query selects: quantities and rates
\* never leave the query) has an alert record if and only if its stored
\* quantity is at or below its threshold.
C8_AlertIffLowAfterPass ==
    (NothingInFlight /\ prevPassNow.remote # Undefined)
        => \A id \in Items :
              InQuery(products[id]) =>
                (notifications[id].exists
                   <=> AtOrBelow(products[id].quantity, products[id].minStockLevel))

\* C9: a pass that runs with the same `now` as the previous completed pass
\* of its backend changes the quantity of no item whose lastDecremented that
\* previous pass wrote (remote and local).
C9_SameNowSecondPassNoChange ==
    [][ /\ \A p \in Procs :
              (passNow[p] = prevPassNow.remote /\ RemotePassStep(p))
                 => \A id \in Items :
                       products[id].lastDecremented = passNow[p]
                          => products'[id].quantity = products[id].quantity
        /\ (lnow = prevPassNow.local /\ L_Write)
              => \A id \in Items :
                    localProducts[id].lastDecremented = ToISOString(lnow)
                       => localProducts'[id].quantity = localProducts[id].quantity ]_vars

\* A call of decrementQuantities() by p has started and not yet returned.
RemotePassInProgress(p) == pc[p] \notin {"idle", "end"}

\* C2: at no time are two decrement passes over the same backend in progress
\* at once (the scheduler's remote pass and the background task's remote pass).
C2_SingleFlightPerBackend ==
    ~(RemotePassInProgress("sync") /\ RemotePassInProgress("bg"))

\* Length of one unit as the claim states it: hour = 1 h, day = 24 h,
\* week = 168 h, month = 730.5 h, in seconds.
ClaimUnitLength(u) ==
    CASE u = "hour" -> 3600
      [] u = "day" -> 24 * 3600
      [] u = "week" -> 168 * 3600
      [] u = "month" -> 7305 * 360

\* k = floor((t - T) / (p x unitLength(u)))
ClaimPeriods(rate, T, t) == (t - T) \div (rate.period * ClaimUnitLength(rate.unit))

\* The claim's case for a stored product p and a pass at instant t: valid
\* rate, quantity > 0, lastDecremented = T < t.
ClaimCase(p, T, t) ==
    /\ p.exists
    /\ ValidRate(p.rate)
    /\ IsNumber(p.quantity) /\ p.quantity > 0
    /\ IsNumber(T) /\ t > T

C11_QuantityNeverNegative ==
    \A id \in Items :
        /\ products[id].exists
              => (IsNumber(products[id].quantity) /\ products[id].quantity >= 0)
        /\ localProducts[id].exists
              => (IsNumber(localProducts[id].quantity) /\ localProducts[id].quantity >= 0)

\* C12: when the batch of a remote pass is committed, the staged update of
\* every item whose document still exists is persisted (new quantity,
\* lastDecremented, lastUpdated), whether or not another item's write fails.
C12_PartialFailureKeepsOthers ==
    [][\A p \in Procs :
          DQ_Commit(p) =>
             \A op \in batch[p] :
                products[op.id].exists =>
                   products'[op.id] = ApplyStaged(products[op.id], op, passNow[p])]_vars

\* C13: an item whose staged update a failed batch (remote) or a failed save
\* (local) did not persist keeps its pre-pass quantity and lastDecremented = T
\* in the store, and the next pass that persists it, at now', stores
\* quantity = max(0, q - k x a) with k = floor((now' - T) / (p x unitLength(u)))
\* and lastDecremented = now': the elapsed periods are applied once.
C13_UnpersistedUpdateIsRetried ==
    [][ /\ \A r \in faults'.lost : products'[r.id].exists =>
              /\ products'[r.id].quantity = r.quantity
              /\ products'[r.id].lastDecremented = r.lastDecremented
        /\ \A r \in faults'.localLost : localProducts'[r.id].exists =>
              /\ localProducts'[r.id].quantity = r.quantity
              /\ localProducts'[r.id].lastDecremented = r.lastDecremented
        /\ \A r \in faults.lost : \A p \in Procs :
              LET pr == products[r.id]
                  k == ClaimPeriods(pr.rate, r.lastDecremented, passNow[p])
              IN  (DQ_Commit(p) /\ <<"remote", r.id>> \in faults'.recovered
                     /\ ClaimCase(pr, r.lastDecremented, passNow[p])) =>
                    /\ k >= 1
                    /\ products'[r.id].quantity = Max(0, r.quantity - k * pr.rate.amount)
                    /\ products'[r.id].lastDecremented = passNow[p]
        /\ \A r \in faults.localLost :
              LET pr == localProducts[r.id]
                  k == ClaimPeriods(pr.rate, r.lastDecremented.iso, lnow)
              IN  (L_Write /\ ClaimCase(pr, r.lastDecremented.iso, lnow)) =>
                    /\ k >= 1
                    /\ localProducts'[r.id].quantity = Max(0, r.quantity - k * pr.rate.amount)
                    /\ localProducts'[r.id].lastDecremented = ToISOString(lnow)
      ]_vars

\* Both stores have persisted, in a pass after the clock advanced, an update
\* that an earlier pass had failed to persist.
C13_Witness ==
    /\ <<"remote", "p2">> \in faults.recovered
    /\ <<"local", "p2">> \in faults.recovered
    /\ products["p2"].exists /\ products["p2"].lastDecremented = Start + TickStep
    /\ localProducts["p2"].lastDecremented = ToISOString(Start + TickStep)

C15_RemovedItemIsNoOp ==
    [][ /\ \A p \in Procs : \A gone \in batch[p] :
              (DQ_Commit(p) /\ ~products[gone.id].exists) =>
                 /\ ~products'[gone.id].exists
                 /\ \A op \in batch[p] : products[op.id].exists =>
                       products'[op.id] = ApplyStaged(products[op.id], op, passNow[p])
        /\ \A gone \in Items :
              (L_Write /\ lupdated[gone].exists /\ ~localProducts[gone].exists) =>
                 /\ ~localProducts'[gone].exists
                 /\ \A id \in Items : localProducts[id].exists =>
                       localProducts'[id] = lupdated[id]
        /\ (\A c \in Callers : pc'[c] = "idle") =>
              \A gone \in faults'.vanished : ~notifications'[gone].exists
      ]_vars

\* An invocation of runSyncTasks: a timer fires or the application comes to
\* the foreground.
Trigger ==
    \/ LocalInterval
    \/ FirebaseInterval
    \/ /\ appState \in {"inactive", "background"}
       /\ HandleAppStateChange("active")

\* C16: a trigger of runSyncTasks that arrives while a run is in progress is
\* dropped, not queued: it changes nothing of the running cycle, its passes or
\* the stores, the step that ends a cycle starts no pass, and a cycle or a
\* local pass starts only at a trigger that finds no run in progress (the
\* remote pass of the scheduler: at such a trigger or as the continuation of
\* the cycle its trigger started).
C16_TriggerWhileRunningIsDropped ==
    [][ /\ (isRunning /\ Trigger) =>
              UNCHANGED <<isRunning, spc, cycleNow, lastLocalRun, lastFirebaseRun,
                          passVars, localVars, storeVars>>
        /\ (isRunning /\ ~isRunning') =>
              (spc' = "idle" /\ lpc' = "idle" /\ pc'["sync"] = "idle")
        /\ (~isRunning /\ isRunning') => Trigger
        /\ (lpc = "idle" /\ lpc' # "idle") => (~isRunning /\ Trigger)
        /\ (pc["sync"] = "idle" /\ pc'["sync"] # "idle") =>
              \/ ~isRunning /\ Trigger
              \/ spc = "local" /\ SyncAfterLocal
      ]_vars

\* A trigger was dropped while the remote pass of the running cycle waits in
\* its loop, after the local pass of the cycle.
C16_Witness ==
    /\ faults.dropped
    /\ isRunning
    /\ spc = "remote"
    /\ pc["sync"] = "wait"
    /\ prevPassNow.local = Start

\* C17: the scheduler starts the local pass only more than 15 min - 5 s, and
\* its remote pass only more than 60 min - 5 s, after the completion of the
\* previous scheduler-started pass of the same backend, whichever trigger
\* started the cycle; each last-run timestamp is written only when the pass of
\* its own backend completes, with the instant of the completion.
C17_MinimumIntervalPerBackend ==
    [][ /\ (lpc = "idle" /\ lpc' = "read") =>
              /\ now - lastLocalRun > 15 * 60 - 5
              /\ prevPassNow.local # Undefined => now - prevPassNow.local > 15 * 60 - 5
        /\ (pc["sync"] = "idle" /\ pc'["sync"] = "query") =>
              /\ now - lastFirebaseRun > 60 * 60 - 5
              /\ prevPassNow.remote # Undefined => now - prevPassNow.remote > 60 * 60 - 5
        /\ lastLocalRun' # lastLocalRun =>
              (spc = "local" /\ lpc = "end" /\ lastLocalRun' = now)
        /\ lastFirebaseRun' # lastFirebaseRun =>
              (spc = "remote" /\ pc["sync"] = "end" /\ lastFirebaseRun' = now)
        /\ (lpc = "end" /\ lpc' = "idle") => lastLocalRun' = now
        /\ (pc["sync"] = "end" /\ pc'["sync"] = "idle") => lastFirebaseRun' = now
      ]_vars

\* The scheduler has started a second local pass, one clock step after both
\* of its passes completed; the remote pass has not been started again.
C17_Witness ==
    /\ lpc = "read"
    /\ now = Start + TickStep
    /\ prevPassNow.local = Start
    /\ lastLocalRun = Start
    /\ prevPassNow.remote = Start
    /\ lastFirebaseRun = Start

\* The positions of the post-commit loop of decrementQuantities().
LoopPositions ==
    {"cls_prod", "cls_notif", "cls_act", "wait", "as_prod", "as_notif", "as_update", "as_delete"}

\* C18: in the pass of each backend, after the write the low-stock check runs
\* for every item the pass decreased, with the item's new quantity, and a
\* failed check does not stop the checks of the remaining items. Remote pass:
\* a commit that resolves is followed by the loop from the first listed
\* document, each check reads the stored quantity, a failed alert write
\* continues the loop, and the loop ends only past the last listed document.
\* Local pass: when the pass has returned after saving, every item it
\* decreased to or below its threshold has an alert record, as a check leaves.
C18_CheckAfterWriteInSamePass ==
    [][ /\ \A p \in Procs :
              /\ (pc[p] = "commit" /\ pc'[p] \notin {"commit", "end"}) =>
                    (pc'[p] = "cls_prod" /\ idx'[p] = 1)
              /\ (pc[p] = "cls_prod" /\ pc'[p] = "cls_notif") =>
                    ck'[p].quantity = products[CurrentDoc(p)].quantity
              /\ CLS_ActFails(p) => pc'[p] \in LoopPositions
              /\ (pc[p] \in LoopPositions /\ pc'[p] = "end") => idx[p] = Len(docs[p])
        /\ (lpc = "end" /\ lpc' = "idle") =>
              \A id \in Items :
                 ( /\ localProducts[id].exists
                   /\ localProducts[id] = lupdated[id]
                   /\ localProducts[id].lastUpdated = ToISOString(lnow)
                   /\ AtOrBelow(localProducts[id].quantity, localProducts[id].minStockLevel) )
                 => notifications'[id].exists
      ]_vars

\* C19: a failed alert write leaves the persisted quantity as it is, and when
\* a later run of the pass with a healthy alert store has ended (no batch
\* having been rejected), every item whose alert write had failed has an alert
\* record if and only if its quantity is at or below its threshold.
C19_FailedAlertWriteIsRepaired ==
    [][ /\ \A p \in Procs : CLS_ActFails(p) => products' = products
        /\ (BgTaskFinish /\ AlertStoreHealthy /\ faults.vanished = {}) =>
              \A id \in faults.alertLost : products'[id].exists =>
                 ( notifications'[id].exists
                     <=> AtOrBelow(products'[id].quantity, products'[id].minStockLevel) )
      ]_vars

\* A consumption rate whose amount is 0 or negative.
NoConsumption(rate) == rate # NoRate /\ IsNumber(rate.amount) /\ rate.amount <= 0

\* C20: no step of a decrement pass of either backend changes the quantity,
\* lastDecremented or lastUpdated of an item whose rate.amount is 0 or
\* negative, whatever time has elapsed.
C20_ZeroAmountItemUnchanged ==
    [][AnyPassStep =>
         \A id \in Items :
            /\ (products[id].exists /\ NoConsumption(products[id].rate)) =>
                  /\ products'[id].quantity = products[id].quantity
                  /\ products'[id].lastDecremented = products[id].lastDecremented
                  /\ products'[id].lastUpdated = products[id].lastUpdated
            /\ (localProducts[id].exists /\ NoConsumption(localProducts[id].rate)) =>
                  /\ localProducts'[id].quantity = localProducts[id].quantity
                  /\ localProducts'[id].lastDecremented = localProducts[id].lastDecremented
                  /\ localProducts'[id].lastUpdated = localProducts[id].lastUpdated]_vars

\* A consumption rate with a period of 0 or less, or with a unit outside
\* hour, day, week and month.
Malformed(rate) ==
    /\ rate # NoRate
    /\ (IsNumber(rate.period) /\ rate.period <= 0) \/ rate.unit \notin Units

\* C21: an item whose rate has a period of 0 or less, or an unrecognised unit,
\* gets 0 elapsed periods in every pass of either backend: no step of a pass
\* changes its quantity or its lastDecremented.
C21_MalformedRateNeverDecremented ==
    [][AnyPassStep =>
         \A id \in Items :
            /\ (products[id].exists /\ Malformed(products[id].rate)) =>
                  /\ products'[id].quantity = products[id].quantity
                  /\ products'[id].lastDecremented = products[id].lastDecremented
            /\ (localProducts[id].exists /\ Malformed(localProducts[id].rate)) =>
                  /\ localProducts'[id].quantity = localProducts[id].quantity
                  /\ localProducts'[id].lastDecremented = localProducts[id].lastDecremented]_vars

\* C22: only items with a consumption rate and a quantity above 0 are
\* eligible for a pass, in both backends alike: the remote query lists no
\* item whose quantity is 0, and no step of a pass changes the quantity,
\* lastDecremented or lastUpdated of an item whose quantity is 0.
C22_ZeroQuantityItemUnchanged ==
    [][ /\ \A p \in Procs : DQ_Query(p) =>
              \A id \in SeqRange(docs'[p]) :
                 products[id].rate # NoRate /\ products[id].quantity > 0
        /\ AnyPassStep =>
              \A id \in Items :
                 /\ (products[id].exists /\ products[id].quantity = 0) =>
                       /\ products'[id].quantity = 0
                       /\ products'[id].lastDecremented = products[id].lastDecremented
                       /\ products'[id].lastUpdated = products[id].lastUpdated
                 /\ (localProducts[id].exists /\ localProducts[id].quantity = 0) =>
                       /\ localProducts'[id].quantity = 0
                       /\ localProducts'[id].lastDecremented = localProducts[id].lastDecremented
                       /\ localProducts'[id].lastUpdated = localProducts[id].lastUpdated
      ]_vars

\* C23: once the local pass and the remote pass have both completed with the
\* same `now` on the same item state, the two stores hold the same quantity
\* and the same lastDecremented instant for every item.
C23_SameResultBothBackends ==
    ( /\ NothingInFlight
      /\ IsNumber(prevPassNow.local)
      /\ prevPassNow.remote = prevPassNow.local )
        => \A id \in Items :
              products[id].exists
                 => /\ localProducts[id].quantity = products[id].quantity
                    /\ localProducts[id].lastDecremented
                          = ToISOString(products[id].lastDecremented)

\* The checkLowStock call of p returns in this step.
CheckReturns(p) ==
    /\ pc[p] \in {"cls_prod", "cls_notif", "cls_act"}
    /\ pc'[p] \notin {"cls_prod", "cls_notif", "cls_act"}

\* The product was missing when the checkLowStock call of p read it.
MissingAtRead(p) ==
    IF pc[p] = "cls_prod" THEN ~products[CurrentDoc(p)].exists ELSE ~ck[p].found

\* C24: a checkLowStock call that found no product document for its id
\* leaves no alert record for that id when it returns, whether or not the
\* caller passed quantity, name and threshold.
C24_MissingItemLeavesNoAlert ==
    [][\A p \in Callers :
          (CheckReturns(p) /\ MissingAtRead(p))
             => ~notifications'[CurrentDoc(p)].exists]_vars

\* The batch of call p is rejected in this step.
CommitRejected(p) ==
    /\ pc[p] = "commit"
    /\ \E op \in batch[p] : ~products[op.id].exists
    /\ DQ_Commit(p)

\* C25: a rejected read or write of a store makes the function it happens in
\* return normally (decrementLocalQuantities and decrementQuantities end,
\* checkLowStock returns to its caller), and every cycle of runSyncTasks,
\* whether its pass resolved or rejected, can take its last step, which
\* clears isRunning.
C25_NoFailurePropagates ==
    /\ []( /\ (spc = "local" /\ lpc \in {"end", "thrown"})
                 => ENABLED (SyncAfterLocal \/ SyncCatchLocal)
           /\ (spc = "remote" /\ pc["sync"] = "end") => ENABLED SyncAfterRemote )
    /\ [][ /\ (L_ReadFails \/ L_WriteFails) => lpc' = "end"
           /\ \A p \in Procs :
                 /\ (DQ_QueryFails(p) \/ CommitRejected(p)) => pc'[p] = "end"
                 /\ CLS_ActFails(p) => pc'[p] = AfterCheckPc(p)
           /\ (spc # "idle" /\ spc' = "idle") => ~isRunning' ]_vars

\* A cycle has ended after its local save and an alert write were rejected.
C25_Witness ==
    /\ faults.localLost # {}
    /\ faults.alertLost # {}
    /\ spc = "idle"
    /\ ~isRunning
    /\ lastFirebaseRun = Start

C27_UnavailableRemoteIsSkipped ==
    [][ faults.noFirebase =>
          /\ products' = products
          /\ notifications' = notifications
          /\ spc' # "remote"
          /\ \A p \in Procs : pc'[p] \in {"idle", "end"}
          /\ (Trigger /\ ~isRunning /\ LocalDue(now, lastLocalRun))
                => (spc' = "local" /\ lpc' = "read") ]_vars

\* Without Firebase, the background task has called decrementQuantities() and
\* the local pass of a cycle has decremented the local product.
C27_Witness ==
    /\ faults.noFirebase
    /\ bgRuns > 0
    /\ pc["bg"] = "end"
    /\ prevPassNow.local = Start
    /\ localProducts["p1"].quantity < FaultLocalProductP1.quantity
    /\ products["p1"] = FaultProductP1

\* C28: every stored quantity is an integer >= 0 at all times, the amount
\* consumed per period being 0.5, 1 or 1.5 (the stored quantities are
\* integers before the passes).
C28_QuantityIsNonNegativeInteger ==
    \A id \in Items :
       /\ products[id].exists
             => (IsInteger(products[id].quantity) /\ products[id].quantity >= 0)
       /\ localProducts[id].exists
             => (IsInteger(localProducts[id].quantity) /\ localProducts[id].quantity >= 0)

\* C29: at every instant, the writes of the remote passes have lowered the
\* stored quantity of the product by at most amount x floor((now - T0) /
\* period length) in total, T0 being its lastDecremented before the first
\* pass, and so have the writes of the local passes.
C29_TotalDecrementBounded ==
    /\ faults.taken.remote["p1"]
          <= FaultProductP1.rate.amount
               * ClaimPeriods(FaultProductP1.rate, FaultProductP1.lastDecremented, now)
    /\ faults.taken.local["p1"]
          <= FaultLocalProductP1.rate.amount
               * ClaimPeriods(FaultLocalProductP1.rate,
                              FaultLocalProductP1.lastDecremented.iso, now)

\* C30: when a local pass writes its list back, every product that a manual
\* write (storeProduct, updateLocalProductQuantity) has stored since the pass
\* read the list is in the store afterwards, as the manual write stored it or
\* as the pass decrements that product.
C30_ManualWriteSurvivesPass ==
    [][ L_Write =>
          \A m \in faults.manual :
             localProducts'[m.id] \in {m.product, LocalDecremented(m.product, lnow)} ]_vars

\* C31: a timer trigger of a backend that fires one full interval after the
\* trigger that started the last pass of that backend, and that finds no
\* cycle running, passes the minimum-interval guard of that backend (the
\* timers fire on their schedule, so every trigger is a timer trigger).
C31_TimerTickAfterFullIntervalRuns ==
    [][ /\ ( /\ OnSchedule(LOCAL_DECREMENT_INTERVAL) /\ LocalInterval
             /\ ~isRunning
             /\ now = faults.started.local + LOCAL_DECREMENT_INTERVAL )
              => LocalDue(now, lastLocalRun)
        /\ ( /\ OnSchedule(FIREBASE_DECREMENT_INTERVAL) /\ FirebaseInterval
             /\ ~isRunning
             /\ now = faults.started.remote + FIREBASE_DECREMENT_INTERVAL )
              => FirebaseDue(now, lastFirebaseRun) ]_vars

\* C32: when every call of a store eventually returns, a set isRunning flag
\* is eventually cleared, whether the passes of the cycle resolve or reject;
\* the flag is set only while a cycle is running, so a trigger that arrives
\* when no cycle is running is not dropped.
C32_FlagEventuallyCleared ==
    /\ isRunning ~> ~isRunning
    /\ [](spc = "idle" => ~isRunning)
    /\ [][(Trigger /\ spc = "idle") => ~faults'.dropped]_vars

\* A cycle has ended with the flag cleared, after a local pass whose save
\* was rejected and a remote pass.
C32_Witness ==
    /\ ~isRunning
    /\ spc = "idle"
    /\ prevPassNow.local = Start
    /\ prevPassNow.remote = Start
    /\ faults.localLost # {}

C34_UnacknowledgedAlertIsRefreshed ==
    (ReturnedLow /\ lastCheck.nExists /\ ~lastCheck.nAck)
        => notifications[lastCheck.id] = NotificationData(lastCheck.quantity, now)

\* A check has just refreshed an unacknowledged alert written at an earlier
\* instant for another quantity.
C34_Witness ==
    /\ ReturnedLow
    /\ lastCheck.nExists
    /\ ~lastCheck.nAck
    /\ lastCheck.before.exists
    /\ ~lastCheck.before.acknowledged
    /\ lastCheck.before.timestamp < now
    /\ lastCheck.before.quantity # lastCheck.quantity
    /\ notifications[lastCheck.id].timestamp = now
    /\ notifications[lastCheck.id].quantity = lastCheck.quantity

\* C35: with passes that keep running and time that keeps advancing, and no
\* manual update, the quantity of every item (valid rate, quantity > 0) is
\* eventually 0 and stays 0, in the remote and in the local store; once a
\* quantity is 0, no step makes it differ from 0.
C35_QuantityEventuallyStaysZero ==
    /\ <>[](\A id \in Items :
               products[id].quantity = 0 /\ localProducts[id].quantity = 0)
    /\ [][\A id \in Items :
             /\ products[id].quantity = 0 => products'[id].quantity = 0
             /\ localProducts[id].quantity = 0 => localProducts'[id].quantity = 0]_vars

\* C36: a firing of the local timer that finds the local pass due (the last
\* local pass ended more than a local interval less the buffer ago) starts
\* the local pass, also while the remote pass of a cycle is in progress; so
\* no window of two local intervals goes by without a local pass.
C36_LocalTimerNotLostToRemotePass ==
    [][ ( /\ OnSchedule(LOCAL_DECREMENT_INTERVAL) /\ LocalInterval
          /\ spc # "local"
          /\ LocalDue(now, lastLocalRun) )
           => (spc' = "local" /\ lpc' = "read") ]_vars

\* C37: for an item without minStockLevel, checkLowStock writes its alert
\* only when the checked quantity is at or below the default threshold 0 and
\* deletes it only when the quantity is above 0, and AddStock deletes the
\* alert only when the quantity it read is above that same threshold.
C37_OneDefaultThreshold ==
    [][ \A p \in Procs :
           LET id == CurrentDoc(p)
               c == ck[p]
           IN  /\ (CLS_Act(p) /\ c.minStockLevel = Undefined) =>
                     /\ (notifications'[id].exists /\ notifications'[id] # notifications[id])
                           => AtOrBelow(c.quantity, Undefined)
                     /\ (notifications[id].exists /\ ~notifications'[id].exists)
                           => ~AtOrBelow(c.quantity, Undefined)
               /\ (AS_Delete(p) /\ c.minStockLevel = Undefined /\ notifications[id].exists)
                     => ~AtOrBelow(c.quantity, Undefined) ]_vars

====
